---- MODULE Spec2Model ----
(***************************************************************************)
(* The media catalog: its record store (db/repo.js over db/schema.sql), the *)
(* main process around it (electron/main.js) and the page (src/renderer.js).*)
(*                                                                         *)
(* JavaScript values are tagged records: Undefined, Null, Num(n), Str(s),  *)
(* Obj(r), Arr(s).  A string is the sequence of its characters, an object  *)
(* is a record whose DOMAIN is the set of its own keys, and a number is    *)
(* held in tenths: Num(45) is 4.5 and Whole(1) is 1 (the numbers of the    *)
(* model have at most one decimal digit).                                  *)
(* A row of the table carries the ten bound columns as such values and     *)
(* id, deleted, created_at and updated_at as integers; CURRENT_TIMESTAMP   *)
(* is the clock `now`, counted in seconds.                                 *)
(***************************************************************************)
EXTENDS Integers, Sequences, FiniteSets, TLC

VARIABLES
    media,   \* the table media: id -> row
    seq,     \* sqlite_sequence of media (AUTOINCREMENT): largest id ever given
    now,     \* CURRENT_TIMESTAMP
    call,    \* the last repo call: [op, id, arg, at], at being its time
    ret,     \* what the last repo call returned or threw
    pre,     \* the table as it was when the last repo call started
    purged,  \* ids for which permanentDeleteMedia returned true
    shell,   \* the main process: platform, phase, windows, db, pending events
    page     \* the renderer: its globals, the parts of the DOM it writes, and
             \* the invocations it waits for

vars == <<media, seq, now, call, ret, pre, purged, shell, page>>

\* Bounds of the model.
MaxSeq == 2
MaxTime == 1

(***************************************************************************)
(* JavaScript values                                                       *)
(***************************************************************************)
Undefined == [t |-> "undefined"]
Null == [t |-> "null"]
Num(n) == [t |-> "number", v |-> n]
Whole(n) == Num(10 * n)
NaN == [t |-> "NaN"]
Str(s) == [t |-> "string", v |-> s]
Obj(r) == [t |-> "object", v |-> r]
Arr(s) == [t |-> "array", v |-> s]

Bool(b) == [t |-> "boolean", v |-> b]

EmptyObject == Obj(<<>>)

\* !v
Falsy(v) ==
    CASE v.t \in {"undefined", "null", "NaN"} -> TRUE
      [] v.t = "number"  -> v.v = 0
      [] v.t = "string"  -> v.v = <<>>
      [] v.t = "boolean" -> v.v = FALSE
      [] OTHER -> FALSE

\* a || b
OrElse(a, b) == IF Falsy(a) THEN b ELSE a

\* a ?? b
Coalesce(a, b) == IF a \in {Undefined, Null} THEN b ELSE a

\* obj.hasOwnProperty(k)
HasOwn(obj, k) == obj.t = "object" /\ k \in DOMAIN obj.v

\* obj[k] for a value that is not null or undefined
Get(obj, k) == IF HasOwn(obj, k) THEN obj.v[k] ELSE Undefined

(***************************************************************************)
(* db/schema.sql: the table media                                          *)
(***************************************************************************)
\* The columns an INSERT or UPDATE of repo.js binds, in the order of the code.
allowedFields ==
    <<"title", "type", "description", "isbn_sku", "image",
      "rating", "quantity", "size", "brand", "system">>

AllowedSet == {allowedFields[i] : i \in 1..Len(allowedFields)}

\* title TEXT NOT NULL, type TEXT NOT NULL
NotNullOk(r) == r.title /= Null /\ r.type /= Null

\* Mutant of RatingCheck: the column without its CHECK constraint.
RatingCheck_none(r) == TRUE

\* rating REAL CHECK (rating IS NULL OR (rating >= 1.0 AND rating <= 5.0))
RatingCheck(r) ==
    r.rating = Null \/ (r.rating.v >= Whole(1).v /\ r.rating.v <= Whole(5).v)

\* The error of the statement that writes r, "ok" when it has none.
ConstraintError(r) ==
    IF ~NotNullOk(r) THEN "SQLITE_CONSTRAINT_NOTNULL"
    ELSE IF ~RatingCheck(r) THEN "SQLITE_CONSTRAINT_CHECK"
    ELSE "ok"

\* Mutant of NextRowid: the smallest id that no row of the table has.
NextRowid_lowestFree(tbl, s) ==
    CHOOSE i \in 1..(s + 1) : i \notin DOMAIN tbl /\ \A j \in 1..(i - 1) : j \in DOMAIN tbl

\* Mutant of NextRowid: INTEGER PRIMARY KEY without AUTOINCREMENT, one more
\* than the largest id in the table.
NextRowid_maxRowid(tbl, s) ==
    IF DOMAIN tbl = {} THEN 1
    ELSE (CHOOSE i \in DOMAIN tbl : \A j \in DOMAIN tbl : j <= i) + 1

\* id INTEGER PRIMARY KEY AUTOINCREMENT: one more than the largest id ever given
\* (s is sqlite_sequence's value for the table tbl).
NextRowid(tbl, s) == s + 1

\* The row an INSERT of the ten bound columns makes: deleted DEFAULT 0,
\* created_at and updated_at DEFAULT CURRENT_TIMESTAMP.
NewRow(id, params, t) ==
    params @@ [id |-> id, deleted |-> 0, created_at |-> t, updated_at |-> t]

(***************************************************************************)
(* What a call returns                                                     *)
(***************************************************************************)
RetNone == [kind |-> "none"]
RetRow(r) == [kind |-> "row", v |-> r]
RetNull == [kind |-> "null"]
RetBool(b) == [kind |-> "boolean", v |-> b]
RetRows(rows) == [kind |-> "rows", v |-> rows]
RetThrow(e) == [kind |-> "throw", error |-> e]
RetSummary(n, errs) == [kind |-> "summary", success |-> n, errors |-> errs]

Call(op, id, arg) == [op |-> op, id |-> id, arg |-> arg, at |-> now]

(***************************************************************************)
(* The application around the store                                        *)
(***************************************************************************)
\* The main process after app.whenReady() ran: the database is open, the
\* window exists and the activate handler is registered.
ShellReady ==
    [platform |-> "linux", phase |-> "running", windows |-> 1, db |-> "open",
     activate |-> TRUE, allClosed |-> FALSE]

\* An invocation of window.electronAPI the page waits for: op is the function
\* invoked, then the function of renderer.js that goes on when it resolves,
\* id and data what was passed, cards the cards a render waits to append.
\* served tells that the main process has called its handler, reply is what
\* the handler replied and turn the place of the reply among the replies on
\* their way to the page (0 while the handler has not replied).  picked tells
\* that the user chose an image in the modal session that made the
\* invocation.
Invocation(op, then, id) ==
    [op |-> op, then |-> then, id |-> id, data |-> EmptyObject, cards |-> <<>>,
     picked |-> FALSE, served |-> FALSE, reply |-> RetNone, turn |-> 0]

\* renderer.js when the page is loaded: its globals, the grids and the modal
\* of index.html as the script writes them (mediaId is the hidden field,
\* dataPath the data-path attribute of #imageInput, files whether the file
\* input holds a file, preview the display of #imagePreview, reading whether
\* a FileReader is at work), the invocations under way in the order they
\* were made, the invocation that resolved last and, for the modal session,
\* whether the user chose an image in it.  An id that is null, and a field
\* that is empty, is 0.
PageLoaded ==
    [currentMedia |-> <<>>, currentView |-> "catalog", editingMediaId |-> 0,
     currentRating |-> Whole(0),
     mediaGrid |-> <<>>, trashGrid |-> <<>>, modal |-> FALSE, mediaId |-> 0,
     dataPath |-> Null, files |-> FALSE, preview |-> FALSE, reading |-> FALSE,
     ipc |-> <<>>, done |-> Invocation("none", "none", 0), picked |-> FALSE]

(***************************************************************************)
(* createMedia                                                             *)
(***************************************************************************)
\* The values stmt.run binds for an item (the same in createMedia,
\* importFromJSON and importFromCSV).
InsertParams(item) ==
    [title       |-> OrElse(Get(item, "title"), Str(<<>>)),
     type        |-> OrElse(Get(item, "type"), Str(<<>>)),
     description |-> OrElse(Get(item, "description"), Null),
     isbn_sku    |-> OrElse(Get(item, "isbn_sku"), Null),
     image       |-> OrElse(Get(item, "image"), Null),
     rating      |-> OrElse(Get(item, "rating"), Null),
     quantity    |-> Coalesce(Get(item, "quantity"), Whole(1)),
     size        |-> OrElse(Get(item, "size"), Null),
     brand       |-> OrElse(Get(item, "brand"), Null),
     system      |-> OrElse(Get(item, "system"), Null)]

\* Mutant of getMediaByIdIn: stmt.get(id) without || null.
getMediaByIdIn_undefined(tbl, id) ==
    IF id \in DOMAIN tbl THEN [kind |-> "row", v |-> tbl[id]] ELSE [kind |-> "undefined"]

\* stmt.get(id) || null
getMediaByIdIn(tbl, id) ==
    IF id \in DOMAIN tbl THEN RetRow(tbl[id]) ELSE RetNull

\* The table with row r put under id.
Put(tbl, id, r) == [i \in DOMAIN tbl \cup {id} |-> IF i = id THEN r ELSE tbl[i]]

\* Mutant of RunInsert: INSERT OR REPLACE that binds the id of the item too.
RunInsert_bindsId(tbl, s, item, t) ==
    LET p == InsertParams(item)
        id == IF Get(item, "id").t = "number" THEN Get(item, "id").v \div 10
              ELSE NextRowid(tbl, s)
    IN  IF ConstraintError(p) = "ok"
        THEN [tbl |-> Put(tbl, id, NewRow(id, p, t)),
              seq |-> IF id > s THEN id ELSE s, err |-> "ok", id |-> id]
        ELSE [tbl |-> tbl, seq |-> s, err |-> ConstraintError(p), id |-> 0]

\* insertStmt.run(...) for an item at time t: the table and sqlite_sequence
\* after it, and its error ("ok" when the row went in under id).
RunInsert(tbl, s, item, t) ==
    LET p == InsertParams(item)
        id == NextRowid(tbl, s)
    IN  IF ConstraintError(p) = "ok"
        THEN [tbl |-> Put(tbl, id, NewRow(id, p, t)), seq |-> id, err |-> "ok", id |-> id]
        ELSE [tbl |-> tbl, seq |-> s, err |-> ConstraintError(p), id |-> 0]

createMedia(item) ==
    /\ seq < MaxSeq
    /\ LET ins == RunInsert(media, seq, item, now)
       IN  /\ media' = ins.tbl
           /\ seq' = ins.seq
           /\ ret' = IF ins.err = "ok"
                     THEN getMediaByIdIn(ins.tbl, ins.id)
                     ELSE RetThrow(ins.err)
    /\ call' = Call("createMedia", 0, item)
    /\ pre' = media
    /\ UNCHANGED <<now, purged, shell, page>>

(***************************************************************************)
(* getMediaById                                                            *)
(***************************************************************************)
getMediaById(id) ==
    /\ ret' = getMediaByIdIn(media, id)
    /\ call' = Call("getMediaById", id, Undefined)
    /\ pre' = media
    /\ UNCHANGED <<media, seq, now, purged, shell, page>>

(***************************************************************************)
(* updateMedia                                                             *)
(***************************************************************************)
\* Mutant of SetClause: the value of the payload as it is, without || null.
SetClause_asGiven(updates) ==
    [f \in {g \in AllowedSet : HasOwn(updates, g)} |-> updates.v[f]]

\* The SET clause: for each allowed field the payload owns, updates[field] || null.
SetClause(updates) ==
    [f \in {g \in AllowedSet : HasOwn(updates, g)} |-> OrElse(updates.v[f], Null)]

\* Mutant of UpdatedRow: the statement also sets created_at = CURRENT_TIMESTAMP.
UpdatedRow_touchCreated(r, set, t) ==
    [f \in DOMAIN r |->
        IF f \in DOMAIN set THEN set[f]
        ELSE IF f \in {"updated_at", "created_at"} THEN t
        ELSE r[f]]

\* Mutant of UpdatedRow: every allowed field is written, the absent ones as NULL.
UpdatedRow_replaceAll(r, set, t) ==
    [f \in DOMAIN r |->
        IF f \in DOMAIN set THEN set[f]
        ELSE IF f = "updated_at" THEN t
        ELSE IF f \in {"description", "isbn_sku", "image", "rating", "size", "brand", "system"}
        THEN Null
        ELSE r[f]]

\* The row after UPDATE media SET <set>, updated_at = CURRENT_TIMESTAMP.
UpdatedRow(r, set, t) ==
    [f \in DOMAIN r |->
        IF f \in DOMAIN set THEN set[f]
        ELSE IF f = "updated_at" THEN t
        ELSE r[f]]

\* updateMedia(id, updates) on the table tbl at time t: the table after it
\* and what it returns or throws.  Without a field to set it returns
\* getMediaById(id) before any statement runs.
updateMediaIn(tbl, id, updates, t) ==
    LET set == SetClause(updates)
    IN  IF DOMAIN set = {}
        THEN [tbl |-> tbl, ret |-> getMediaByIdIn(tbl, id)]
        ELSE IF id \notin DOMAIN tbl
        THEN [tbl |-> tbl, ret |-> getMediaByIdIn(tbl, id)]
        ELSE LET r == UpdatedRow(tbl[id], set, t)
             IN  IF ConstraintError(r) = "ok"
                 THEN [tbl |-> [tbl EXCEPT ![id] = r], ret |-> RetRow(r)]
                 ELSE [tbl |-> tbl, ret |-> RetThrow(ConstraintError(r))]

updateMedia(id, updates) ==
    /\ LET after == updateMediaIn(media, id, updates, now)
       IN  /\ media' = after.tbl
           /\ ret' = after.ret
    /\ call' = Call("updateMedia", id, updates)
    /\ pre' = media
    /\ UNCHANGED <<seq, now, purged, shell, page>>

(***************************************************************************)
(* softDeleteMedia, restoreMedia, permanentDeleteMedia                     *)
(***************************************************************************)
\* result.changes of a statement with WHERE id = ?: the rows the WHERE matches.
Changes(tbl, id) == IF id \in DOMAIN tbl THEN 1 ELSE 0

\* Mutant of SetDeleted: the statement without its WHERE id = ?.
SetDeleted_noWhere(tbl, id, d, t) ==
    [i \in DOMAIN tbl |-> [tbl[i] EXCEPT !.deleted = d, !.updated_at = t]]

\* UPDATE media SET deleted = d, updated_at = CURRENT_TIMESTAMP WHERE id = ?
SetDeleted(tbl, id, d, t) ==
    [i \in DOMAIN tbl |->
        IF i = id THEN [tbl[i] EXCEPT !.deleted = d, !.updated_at = t] ELSE tbl[i]]

softDeleteMedia(id) ==
    /\ media' = SetDeleted(media, id, 1, now)
    /\ ret' = RetBool(Changes(media, id) > 0)
    /\ call' = Call("softDeleteMedia", id, Undefined)
    /\ pre' = media
    /\ UNCHANGED <<seq, now, purged, shell, page>>

\* Mutant of restoreMedia: WHERE id = ? AND deleted = 1.
restoreMedia_whereDeleted(id) ==
    LET hit == id \in DOMAIN media /\ media[id].deleted = 1
    IN  /\ media' = IF hit THEN SetDeleted(media, id, 0, now) ELSE media
        /\ ret' = RetBool(hit)
        /\ call' = Call("restoreMedia", id, Undefined)
        /\ pre' = media
        /\ UNCHANGED <<seq, now, purged, shell, page>>

restoreMedia(id) ==
    /\ media' = SetDeleted(media, id, 0, now)
    /\ ret' = RetBool(Changes(media, id) > 0)
    /\ call' = Call("restoreMedia", id, Undefined)
    /\ pre' = media
    /\ UNCHANGED <<seq, now, purged, shell, page>>

\* DELETE FROM media WHERE id = ?
DeleteRow(tbl, id) == [i \in DOMAIN tbl \ {id} |-> tbl[i]]

permanentDeleteMedia(id) ==
    /\ media' = DeleteRow(media, id)
    /\ ret' = RetBool(Changes(media, id) > 0)
    /\ purged' = IF Changes(media, id) > 0 THEN purged \cup {id} ELSE purged
    /\ call' = Call("permanentDeleteMedia", id, Undefined)
    /\ pre' = media
    /\ UNCHANGED <<seq, now, shell, page>>

(***************************************************************************)
(* getAllMedia                                                             *)
(***************************************************************************)
Truthy(v) == ~Falsy(v)

UpperCase == <<"A", "B", "C", "D", "E", "F", "G", "H", "I", "J", "K", "L", "M",
               "N", "O", "P", "Q", "R", "S", "T", "U", "V", "W", "X", "Y", "Z">>
LowerCase == <<"a", "b", "c", "d", "e", "f", "g", "h", "i", "j", "k", "l", "m",
               "n", "o", "p", "q", "r", "s", "t", "u", "v", "w", "x", "y", "z">>

\* LIKE folds the case of ASCII letters.
Fold(c) ==
    IF \E i \in 1..26 : UpperCase[i] = c
    THEN LowerCase[CHOOSE i \in 1..26 : UpperCase[i] = c]
    ELSE c

\* text LIKE '%term%', for a term without the wildcards % and _.
Like(text, term) ==
    \E i \in 0..(Len(text) - Len(term)) :
        \A j \in 1..Len(term) : Fold(text[i + j]) = Fold(term[j])

\* Mutant of DeletedClause: deleted = 0 is added whatever includeDeleted says.
DeletedClause_always(options, r) == r.deleted = 0

\* if (!options.includeDeleted) deleted = 0  else if (options.onlyDeleted) deleted = 1
DeletedClause(options, r) ==
    IF ~Truthy(Get(options, "includeDeleted")) THEN r.deleted = 0
    ELSE IF Truthy(Get(options, "onlyDeleted")) THEN r.deleted = 1
    ELSE TRUE

\* if (options[col]) AND col = ?
EqualsClause(options, r, col) ==
    Truthy(Get(options, col)) => r[col] = Get(options, col)

\* if (options.search) AND (title LIKE ? OR description LIKE ?)
SearchClause(options, r) ==
    Truthy(Get(options, "search")) =>
        \/ Like(r.title.v, Get(options, "search").v)
        \/ (r.description /= Null /\ Like(r.description.v, Get(options, "search").v))

\* if (options.minRating !== undefined) AND rating >= ?
\* (a comparison with NULL on either side is not true)
MinRatingClause(options, r) ==
    Get(options, "minRating") /= Undefined =>
        /\ Get(options, "minRating").t = "number"
        /\ r.rating /= Null
        /\ r.rating.v >= Get(options, "minRating").v

\* The WHERE clause getAllMedia builds.
Where(options, r) ==
    /\ DeletedClause(options, r)
    /\ EqualsClause(options, r, "type")
    /\ SearchClause(options, r)
    /\ MinRatingClause(options, r)
    /\ EqualsClause(options, r, "brand")
    /\ EqualsClause(options, r, "system")

\* ORDER BY updated_at DESC: every order of the rows in which updated_at
\* never increases (SQLite fixes no order among equal keys).
OrderedDesc(tbl, ids) ==
    {s \in [1..Cardinality(ids) -> ids] :
        /\ \A i, j \in DOMAIN s : i /= j => s[i] /= s[j]
        /\ \A i, j \in DOMAIN s : i < j => tbl[s[i]].updated_at >= tbl[s[j]].updated_at}

\* The results stmt.all may give for the options (function getAllMedia(options = {})).
getAllMediaIn(tbl, options) ==
    LET o == IF options = Undefined THEN EmptyObject ELSE options
        ids == {id \in DOMAIN tbl : Where(o, tbl[id])}
    IN  {[i \in DOMAIN s |-> tbl[s[i]]] : s \in OrderedDesc(tbl, ids)}

getAllMedia(options) == getAllMediaIn(media, options)

\* The rows of a result.
RowsOf(result) == {result[i] : i \in DOMAIN result}

(***************************************************************************)
(* Strings                                                                 *)
(***************************************************************************)
\* What String.prototype.trim removes (of the characters of the model).
IsSpace(c) == c \in {" ", "\t", "\r", "\n"}

RECURSIVE TrimStart(_)
TrimStart(s) == IF s /= <<>> /\ IsSpace(Head(s)) THEN TrimStart(Tail(s)) ELSE s

RECURSIVE TrimEnd(_)
TrimEnd(s) ==
    IF s /= <<>> /\ IsSpace(s[Len(s)]) THEN TrimEnd(SubSeq(s, 1, Len(s) - 1)) ELSE s

\* s.trim()
Trim(s) == TrimEnd(TrimStart(s))

\* s.split(sep) for a one-character separator: the pieces of s between its
\* separators, in order; piece k ends before the k-th separator.
Split(s, sep) ==
    LET at     == {i \in DOMAIN s : s[i] = sep}
        n      == Cardinality(at)
        kth(k) == CHOOSE i \in at : Cardinality({j \in at : j < i}) = k - 1
        from(k) == IF k = 1 THEN 1 ELSE kth(k - 1) + 1
        to(k)   == IF k = n + 1 THEN Len(s) ELSE kth(k) - 1
    IN  [k \in 1..(n + 1) |-> SubSeq(s, from(k), to(k))]

\* xs.indexOf(x), counted from 0; -1 when x is not in xs.
IndexOf(xs, x) ==
    IF \E i \in DOMAIN xs : xs[i] = x
    THEN (CHOOSE i \in DOMAIN xs : xs[i] = x /\ \A j \in 1..(i - 1) : xs[j] /= x) - 1
    ELSE -1

Digits == <<"0", "1", "2", "3", "4", "5", "6", "7", "8", "9">>
IsDigit(c) == \E i \in DOMAIN Digits : Digits[i] = c
DigitVal(c) == (CHOOSE i \in DOMAIN Digits : Digits[i] = c) - 1

\* The digits s starts with.
RECURSIVE DigitRun(_)
DigitRun(s) ==
    IF s /= <<>> /\ IsDigit(Head(s)) THEN <<Head(s)>> \o DigitRun(Tail(s)) ELSE <<>>

\* The number a run of digits writes.
RECURSIVE DigitsValue(_)
DigitsValue(ds) ==
    IF ds = <<>> THEN 0
    ELSE 10 * DigitsValue(SubSeq(ds, 1, Len(ds) - 1)) + DigitVal(ds[Len(ds)])

\* s without its first n characters.
Drop(s, n) == SubSeq(s, n + 1, Len(s))

\* parseFloat(v): the longest prefix [+-]digits[.digits] after leading white
\* space (texts with an exponent or with Infinity are outside the model), in
\* tenths; NaN when there is no digit.  undefined reads as the text "undefined".
parseFloat(v) ==
    IF v.t /= "string" THEN NaN
    ELSE LET s0 == TrimStart(v.v)
             neg == s0 /= <<>> /\ Head(s0) = "-"
             s1 == IF s0 /= <<>> /\ Head(s0) \in {"+", "-"} THEN Tail(s0) ELSE s0
             int == DigitRun(s1)
             s2 == Drop(s1, Len(int))
             frac == IF s2 /= <<>> /\ Head(s2) = "." THEN DigitRun(Tail(s2)) ELSE <<>>
             tenths == 10 * DigitsValue(int)
                         + (IF frac = <<>> THEN 0 ELSE DigitVal(frac[1]))
         IN  IF int = <<>> /\ frac = <<>> THEN NaN
             ELSE Num(IF neg THEN 0 - tenths ELSE tenths)

\* parseInt(v): the longest prefix [+-]digits after leading white space (texts
\* with a 0x prefix are outside the model); NaN when there is no digit.
parseInt(v) ==
    IF v.t /= "string" THEN NaN
    ELSE LET s0 == TrimStart(v.v)
             neg == s0 /= <<>> /\ Head(s0) = "-"
             s1 == IF s0 /= <<>> /\ Head(s0) \in {"+", "-"} THEN Tail(s0) ELSE s0
             int == DigitRun(s1)
         IN  IF int = <<>> THEN NaN
             ELSE Whole(IF neg THEN 0 - DigitsValue(int) ELSE DigitsValue(int))

(***************************************************************************)
(* The columns of the table and their names                                *)
(***************************************************************************)
\* The characters of the column names.
HeaderText(name) ==
    CASE name = "title"       -> <<"t", "i", "t", "l", "e">>
      [] name = "type"        -> <<"t", "y", "p", "e">>
      [] name = "description" -> <<"d", "e", "s", "c", "r", "i", "p", "t", "i", "o", "n">>
      [] name = "isbn_sku"    -> <<"i", "s", "b", "n", "_", "s", "k", "u">>
      [] name = "image"       -> <<"i", "m", "a", "g", "e">>
      [] name = "rating"      -> <<"r", "a", "t", "i", "n", "g">>
      [] name = "quantity"    -> <<"q", "u", "a", "n", "t", "i", "t", "y">>
      [] name = "size"        -> <<"s", "i", "z", "e">>
      [] name = "brand"       -> <<"b", "r", "a", "n", "d">>
      [] name = "system"      -> <<"s", "y", "s", "t", "e", "m">>

\* The columns of media in the order of the schema (and of SELECT *).
columns ==
    <<"id", "title", "type", "description", "isbn_sku", "image", "rating",
      "quantity", "size", "brand", "system", "deleted", "created_at", "updated_at">>

\* The characters of a column's name.
ColumnText(name) ==
    CASE name \in AllowedSet   -> HeaderText(name)
      [] name = "id"           -> <<"i", "d">>
      [] name = "deleted"      -> <<"d", "e", "l", "e", "t", "e", "d">>
      [] name = "created_at"   -> <<"c", "r", "e", "a", "t", "e", "d", "_", "a", "t">>
      [] name = "updated_at"   -> <<"u", "p", "d", "a", "t", "e", "d", "_", "a", "t">>

(***************************************************************************)
(* JSON.parse                                                              *)
(*                                                                         *)
(* A parse step gives [ok, v, i]: whether it read a value, the value, and  *)
(* the position after it.  Texts with \b, \f or \u escapes, exponents or   *)
(* more than one decimal digit are outside the model; an object keeps the  *)
(* members whose key is the name of a column, which are the only ones      *)
(* importFromJSON reads.                                                   *)
(***************************************************************************)
ParseFail == [ok |-> FALSE, v |-> [t |-> "undefined"], i |-> 0]
Parsed(v, i) == [ok |-> TRUE, v |-> v, i |-> i]

\* The first position from i on that holds no JSON white space.
RECURSIVE SkipWs(_, _)
SkipWs(s, i) ==
    IF i <= Len(s) /\ s[i] \in {" ", "\n", "\r", "\t"} THEN SkipWs(s, i + 1) ELSE i

\* s has the characters of word from position i on.
StartsWith(s, i, word) ==
    /\ i + Len(word) - 1 <= Len(s)
    /\ SubSeq(s, i, i + Len(word) - 1) = word

\* The character at position j of a string that starts at i follows an odd
\* run of backslashes: it is the second character of an escape.
Escaped(s, i, j) ==
    LET run == CHOOSE n \in 0..(j - i) :
                   /\ n = j - i \/ s[j - 1 - n] /= "\\"
                   /\ \A m \in 0..(n - 1) : s[j - 1 - m] = "\\"
    IN  run % 2 = 1

\* The character an escape \c stands for.
Unescape(c) ==
    CASE c = "n" -> "\n"
      [] c = "r" -> "\r"
      [] c = "t" -> "\t"
      [] OTHER -> c

\* The quote at position j closes the string that starts at i.
Closes(s, i, j) == s[j] = "\"" /\ ~Escaped(s, i, j)

\* The positions of the characters of the string from i to end - 1, those of
\* the backslashes that start an escape left out.
StringPositions(s, i, end) ==
    SelectSeq([k \in 1..(end - i) |-> i + k - 1],
              LAMBDA p : s[p] /= "\\" \/ Escaped(s, i, p))

\* The characters at these positions, an escaped one read as what it stands for.
StringText(s, i, kept) ==
    [k \in DOMAIN kept |->
        IF Escaped(s, i, kept[k]) THEN Unescape(s[kept[k]]) ELSE s[kept[k]]]

\* The string from i to the closing quote at end: it holds no raw control
\* character and no escape but \" \\ \/ \n \r \t.
StringUpTo(s, i, end) ==
    IF \E p \in i..(end - 1) :
           \/ s[p] \in {"\n", "\r", "\t"}
           \/ /\ Escaped(s, i, p)
              /\ s[p] \notin {"\"", "\\", "/", "n", "r", "t"}
    THEN ParseFail
    ELSE Parsed([t |-> "string", v |-> StringText(s, i, StringPositions(s, i, end))],
                end + 1)

\* A string, i being the position after its opening quote: it ends at the
\* first quote that is not escaped.
ParseString(s, i) ==
    IF \E j \in i..Len(s) : Closes(s, i, j)
    THEN StringUpTo(s, i, CHOOSE j \in i..Len(s) :
                              Closes(s, i, j) /\ \A k \in i..(j - 1) : ~Closes(s, i, k))
    ELSE ParseFail

\* A number: -? digits (. digits)?, without a leading zero before a digit.
ParseNumber(s, i) ==
    LET neg == i <= Len(s) /\ s[i] = "-"
        j == IF neg THEN i + 1 ELSE i
        int == DigitRun(Drop(s, j - 1))
        k == j + Len(int)
        dot == k <= Len(s) /\ s[k] = "."
        frac == IF dot THEN DigitRun(Drop(s, k)) ELSE <<>>
        tenths == 10 * DigitsValue(int) + (IF frac = <<>> THEN 0 ELSE DigitVal(frac[1]))
    IN  IF int = <<>> \/ (Len(int) > 1 /\ int[1] = "0") \/ (dot /\ frac = <<>>)
        THEN ParseFail
        ELSE Parsed([t |-> "number", v |-> IF neg THEN 0 - tenths ELSE tenths],
                    IF dot THEN k + 1 + Len(frac) ELSE k)

\* The column a key names, "" when it names none.
KeyName(text) ==
    IF \E k \in DOMAIN columns : ColumnText(columns[k]) = text
    THEN columns[CHOOSE k \in DOMAIN columns : ColumnText(columns[k]) = text]
    ELSE ""

\* The state of reading the items of an array or an object: ok is FALSE when
\* the text is wrong, done is TRUE after the closing bracket, i is the position
\* of the next item (or the one after the bracket), v holds the items read.
ItemsFail == [ok |-> FALSE, done |-> TRUE, i |-> 0, v |-> <<>>]

RECURSIVE ParseValue(_, _)
RECURSIVE ParseItems(_, _, _, _)
RECURSIVE ParseRun(_, _, _, _)

\* The state after an item that ends at position j - 1, v being the items
\* read with it: a comma goes on to position next, the bracket close ends.
AfterItem(s, j, close, next, v) ==
    IF j > Len(s) THEN ItemsFail
    ELSE IF s[j] = "," THEN [ok |-> TRUE, done |-> FALSE, i |-> next, v |-> v]
    ELSE IF s[j] = close THEN [ok |-> TRUE, done |-> TRUE, i |-> j + 1, v |-> v]
    ELSE ItemsFail

\* The element e of an array read, and the comma or bracket after it.
AfterElement(s, st, e) ==
    IF ~e.ok THEN ItemsFail
    ELSE AfterItem(s, SkipWs(s, e.i), "]", SkipWs(s, e.i) + 1, Append(st.v, e.v))

\* One element of an array, st.i being its position.
ParseElement(s, st) == AfterElement(s, st, ParseValue(s, st.i))

\* The members read so far with the member name added, or as they are when
\* name is "".
WithMember(members, name, v) ==
    IF name = "" THEN members
    ELSE [f \in DOMAIN members \cup {name} |-> IF f = name THEN v ELSE members[f]]

\* The value m of the member name read, and the comma or brace after it; the
\* next key stands after the white space that follows a comma.
AfterMember(s, st, name, m) ==
    IF ~m.ok THEN ItemsFail
    ELSE AfterItem(s, SkipWs(s, m.i), "}", SkipWs(s, SkipWs(s, m.i) + 1),
                   WithMember(st.v, name, m.v))

\* The key of a member read, c being the position of the colon after it.
AfterKey(s, st, key, c) ==
    IF ~key.ok \/ c > Len(s) \/ s[c] /= ":" THEN ItemsFail
    ELSE AfterMember(s, st, KeyName(key.v.v), ParseValue(s, c + 1))

\* The colon after the key read.
ColonAfter(s, st, key) ==
    IF ~key.ok THEN ItemsFail ELSE AfterKey(s, st, key, SkipWs(s, key.i))

\* One member of an object, st.i being the position of its key (white space
\* before it skipped).
ParseMember(s, st) ==
    IF st.i > Len(s) \/ s[st.i] /= "\"" THEN ItemsFail
    ELSE ColonAfter(s, st, ParseString(s, st.i + 1))

\* The state half, or up to n items more from it on when the closing bracket
\* is not read yet.
MoreItems(s, kind, half, n) ==
    IF half.done THEN half ELSE ParseItems(s, kind, half, n)

\* Up to n items of an array or an object (kind) from the state st on: the
\* first half of them is read, and the rest from the state that leaves unless
\* the closing bracket was read.
ParseItems(s, kind, st, n) ==
    IF n <= 1
    THEN IF kind = "array" THEN ParseElement(s, st) ELSE ParseMember(s, st)
    ELSE MoreItems(s, kind, ParseItems(s, kind, st, n \div 2), n - (n \div 2))

\* The state run after n items, or the items that follow it when the closing
\* bracket is not read yet: twice as many, and so on.
MoreRuns(s, kind, run, n) ==
    IF run.done THEN run ELSE ParseRun(s, kind, run, 2 * n)

\* The items from the state st on up to the closing bracket: n of them, then
\* twice as many, and so on.
ParseRun(s, kind, st, n) == MoreRuns(s, kind, ParseItems(s, kind, st, n), n)

\* The value of kind that the items of the state st make.
ValueOf(kind, st) ==
    IF st.ok THEN Parsed([t |-> kind, v |-> st.v], st.i) ELSE ParseFail

\* The items of an array or an object, i being the position of the first one.
ParseAll(s, kind, i) ==
    ValueOf(kind, ParseRun(s, kind, [ok |-> TRUE, done |-> FALSE, i |-> i, v |-> <<>>], 1))

\* A value, white space before it skipped.
ParseValue(s, i) ==
    LET j == SkipWs(s, i)
    IN  IF j > Len(s) THEN ParseFail
        ELSE IF s[j] = "\"" THEN ParseString(s, j + 1)
        ELSE IF s[j] = "[" THEN
            IF SkipWs(s, j + 1) <= Len(s) /\ s[SkipWs(s, j + 1)] = "]"
            THEN Parsed([t |-> "array", v |-> <<>>], SkipWs(s, j + 1) + 1)
            ELSE ParseAll(s, "array", j + 1)
        ELSE IF s[j] = "{" THEN
            IF SkipWs(s, j + 1) <= Len(s) /\ s[SkipWs(s, j + 1)] = "}"
            THEN Parsed([t |-> "object", v |-> <<>>], SkipWs(s, j + 1) + 1)
            ELSE ParseAll(s, "object", SkipWs(s, j + 1))
        ELSE IF StartsWith(s, j, <<"n", "u", "l", "l">>) THEN Parsed([t |-> "null"], j + 4)
        ELSE IF StartsWith(s, j, <<"t", "r", "u", "e">>)
        THEN Parsed([t |-> "boolean", v |-> TRUE], j + 4)
        ELSE IF StartsWith(s, j, <<"f", "a", "l", "s", "e">>)
        THEN Parsed([t |-> "boolean", v |-> FALSE], j + 5)
        ELSE ParseNumber(s, j)

\* What JSON.parse throws.
SyntaxError == [t |-> "SyntaxError"]

\* Mutant of JSONparse: a parser that closes an array the text leaves open.
JSONparse_closesArray(text) ==
    LET r == ParseValue(text, 1)
        c == ParseValue(Append(text, "]"), 1)
    IN  IF r.ok /\ SkipWs(text, r.i) > Len(text) THEN r.v
        ELSE IF c.ok THEN c.v ELSE SyntaxError

\* JSON.parse(text): the value, or SyntaxError when the text is no JSON.
JSONparse(text) ==
    LET r == ParseValue(text, 1)
    IN  IF r.ok /\ SkipWs(text, r.i) > Len(text) THEN r.v ELSE SyntaxError

(***************************************************************************)
(* importFromJSON                                                          *)
(***************************************************************************)
\* One entry of the errors list: the text `<kind> <label>: <message>`.
ErrorEntry(kind, label, message) == [kind |-> kind, label |-> label, message |-> message]

Unknown == Str(<<"U", "n", "k", "n", "o", "w", "n">>)

\* The body of db.transaction in importFromJSON, from item i on.  st holds the
\* table, sqlite_sequence, the success count and the errors so far; reading
\* item.title of null or undefined throws in the try block and again in the
\* catch block, which ends the loop with the exception in st.threw.
RECURSIVE InsertManyJSON(_, _, _, _)
InsertManyJSON(items, i, st, t) ==
    IF i > Len(items) THEN st
    ELSE IF items[i] \in {Null, Undefined}
    THEN [st EXCEPT !.threw = "TypeError"]
    ELSE LET ins == RunInsert(st.tbl, st.seq, items[i], t)
         IN  IF ins.err = "ok"
             THEN InsertManyJSON(items, i + 1,
                     [st EXCEPT !.tbl = ins.tbl, !.seq = ins.seq,
                                !.success = st.success + 1], t)
             ELSE InsertManyJSON(items, i + 1,
                     [st EXCEPT !.errors = Append(st.errors,
                         ErrorEntry("Item", OrElse(Get(items[i], "title"), Unknown),
                                    ins.err))], t)

\* The state a transaction starts from.
BatchStart(tbl, s) ==
    [tbl |-> tbl, seq |-> s, success |-> 0, errors |-> <<>>, threw |-> "no"]

\* jsonData is a text (a value Str) or the payload as a value; the message of
\* a text that JSON.parse rejects is written "SyntaxError".
\* importFromJSON(jsonData) on the table tbl with sqlite_sequence s at time
\* t: the table and the sequence after it, and what it returns or throws.
importFromJSONIn(tbl, s, jsonData, t) ==
    LET items == IF jsonData.t = "string" THEN JSONparse(jsonData.v) ELSE jsonData
    IN  IF items.t = "SyntaxError"
        THEN [tbl |-> tbl, seq |-> s,
              ret |-> RetSummary(0, <<ErrorEntry("Invalid JSON", Null, "SyntaxError")>>)]
        ELSE IF items.t /= "array"
        THEN [tbl |-> tbl, seq |-> s,
              ret |-> RetSummary(0, <<ErrorEntry("Invalid JSON", Null,
                                         "JSON data must be an array")>>)]
        ELSE LET st == InsertManyJSON(items.v, 1, BatchStart(tbl, s), t)
             IN  IF st.threw /= "no"
                 THEN \* the transaction rolls back and rethrows
                      [tbl |-> tbl, seq |-> s, ret |-> RetThrow(st.threw)]
                 ELSE [tbl |-> st.tbl, seq |-> st.seq,
                       ret |-> RetSummary(st.success, st.errors)]

importFromJSON(jsonData) ==
    /\ LET after == importFromJSONIn(media, seq, jsonData, now)
       IN  /\ media' = after.tbl
           /\ seq' = after.seq
           /\ ret' = after.ret
    /\ call' = Call("importFromJSON", 0, jsonData)
    /\ pre' = media
    /\ UNCHANGED <<now, purged, shell, page>>

(***************************************************************************)
(* importFromCSV                                                           *)
(***************************************************************************)
\* csvData.split('\n').filter(line => line.trim())
CsvLines(csvData) ==
    SelectSeq(Split(csvData, "\n"), LAMBDA line : Trim(line) /= <<>>)

\* lines[0].split(',').map(h => h.trim())
CsvHeaders(line) ==
    LET hs == Split(line, ",") IN [i \in DOMAIN hs |-> Trim(hs[i])]

expectedHeaders ==
    <<"title", "type", "description", "isbn_sku", "image",
      "rating", "quantity", "size", "brand", "system">>

\* headerMap: each expected header found in the header row, with its index
\* counted from 0.
HeaderMap(headers) ==
    LET found == {expectedHeaders[k] : k \in
                    {k \in DOMAIN expectedHeaders :
                        IndexOf(headers, HeaderText(expectedHeaders[k])) /= -1}}
    IN  [name \in found |-> IndexOf(headers, HeaderText(name))]

\* headerMap[name] as a condition: the header is there and its index is not 0.
HeaderTruthy(headerMap, name) == name \in DOMAIN headerMap /\ headerMap[name] /= 0

\* values[headerMap[name]]
ValueAt(values, headerMap, name) ==
    IF name \in DOMAIN headerMap /\ (headerMap[name] + 1) \in DOMAIN values
    THEN Str(values[headerMap[name] + 1])
    ELSE Undefined

\* One turn of the loop of parseCSVLine, at position i of the line (positions
\* counted from 1).  st holds values, current and inQuotes, and skip, which
\* is TRUE when the turn before did i++ and this character is passed over.
ParseCSVStep(line, i, st) ==
    IF st.skip THEN [st EXCEPT !.skip = FALSE]
    ELSE IF line[i] = "\""
    THEN IF st.inQuotes /\ i + 1 <= Len(line) /\ line[i + 1] = "\""
         THEN [st EXCEPT !.current = Append(@, "\""), !.skip = TRUE]
         ELSE [st EXCEPT !.inQuotes = ~@]
    ELSE IF line[i] = "," /\ ~st.inQuotes
    THEN [st EXCEPT !.values = Append(@, Trim(st.current)), !.current = <<>>]
    ELSE [st EXCEPT !.current = Append(@, line[i])]

\* The turns of the loop for the positions lo..hi in order, from the state st:
\* the first half of the positions is worked out, and the second half starts
\* from the state it leaves.
RECURSIVE ParseCSVOver(_, _, _, _)
ParseCSVOver(line, lo, hi, st) ==
    IF lo > hi THEN st
    ELSE IF lo = hi THEN ParseCSVStep(line, lo, st)
    ELSE LET mid == (lo + hi) \div 2
             half == ParseCSVOver(line, lo, mid, st)
         IN  IF half.skip \in BOOLEAN
             THEN ParseCSVOver(line, mid + 1, hi, half)
             ELSE half

parseCSVLine(line) ==
    LET st == ParseCSVOver(line, 1, Len(line),
                  [values |-> <<>>, current |-> <<>>, inQuotes |-> FALSE, skip |-> FALSE])
    IN  Append(st.values, Trim(st.current))

\* The item built from data line i (counted from 0, the header being line 0).
CsvItem(line, i, headerMap) ==
    LET values == parseCSVLine(line)
        text(name) == IF HeaderTruthy(headerMap, name)
                      THEN ValueAt(values, headerMap, name)
                      ELSE Null
    IN  Obj([_rowNum     |-> Whole(i + 1),
             title       |-> OrElse(ValueAt(values, headerMap, "title"), Str(<<>>)),
             type        |-> OrElse(ValueAt(values, headerMap, "type"), Str(<<>>)),
             description |-> text("description"),
             isbn_sku    |-> text("isbn_sku"),
             image       |-> text("image"),
             rating      |-> IF HeaderTruthy(headerMap, "rating")
                             THEN OrElse(parseFloat(ValueAt(values, headerMap, "rating")), Null)
                             ELSE Null,
             quantity    |-> IF HeaderTruthy(headerMap, "quantity")
                             THEN OrElse(parseInt(ValueAt(values, headerMap, "quantity")), Whole(1))
                             ELSE Whole(1),
             size        |-> text("size"),
             brand       |-> text("brand"),
             system      |-> text("system")])

\* The items of the data lines.
CsvItems(lines, headerMap) ==
    [k \in 1..(Len(lines) - 1) |-> CsvItem(lines[k + 1], k, headerMap)]

\* The body of db.transaction in importFromCSV, from item i on.
RECURSIVE InsertManyCSV(_, _, _, _)
InsertManyCSV(items, i, st, t) ==
    IF i > Len(items) THEN st
    ELSE LET ins == RunInsert(st.tbl, st.seq, items[i], t)
         IN  IF ins.err = "ok"
             THEN InsertManyCSV(items, i + 1,
                     [st EXCEPT !.tbl = ins.tbl, !.seq = ins.seq,
                                !.success = st.success + 1], t)
             ELSE InsertManyCSV(items, i + 1,
                     [st EXCEPT !.errors = Append(st.errors,
                         ErrorEntry("Row", Get(items[i], "_rowNum"), ins.err))], t)

\* importFromCSV(csvData) on the table tbl with sqlite_sequence s at time t:
\* the table and the sequence after it, and what it returns.
importFromCSVIn(tbl, s, csvData, t) ==
    LET lines == CsvLines(csvData)
    IN  IF Len(lines) = 0
        THEN [tbl |-> tbl, seq |-> s,
              ret |-> RetSummary(0, <<ErrorEntry("CSV", Null, "CSV file is empty")>>)]
        ELSE LET headerMap == HeaderMap(CsvHeaders(lines[1]))
             IN  IF ~HeaderTruthy(headerMap, "title") \/ ~HeaderTruthy(headerMap, "type")
                 THEN [tbl |-> tbl, seq |-> s,
                       ret |-> RetSummary(0, <<ErrorEntry("CSV", Null,
                                   "CSV must have \"title\" and \"type\" columns")>>)]
                 ELSE LET st == InsertManyCSV(CsvItems(lines, headerMap), 1,
                                              BatchStart(tbl, s), t)
                      IN  [tbl |-> st.tbl, seq |-> st.seq,
                           ret |-> RetSummary(st.success, st.errors)]

importFromCSV(csvData) ==
    /\ LET after == importFromCSVIn(media, seq, csvData, now)
       IN  /\ media' = after.tbl
           /\ seq' = after.seq
           /\ ret' = after.ret
    /\ call' = Call("importFromCSV", 0, Str(csvData))
    /\ pre' = media
    /\ UNCHANGED <<now, purged, shell, page>>

(***************************************************************************)
(* The calls of the model                                                  *)
(***************************************************************************)
TitleA == Str(<<"A">>)
TitleB == Str(<<"B">>)
TypeDvd == Str(<<"d", "v", "d">>)

\* The ids a call may name.
Ids == 1..MaxSeq

\* Items for createMedia: no rating, and the ratings 0, 0.5, 5.0 and 5.1.
CreateItems ==
    {Obj([title |-> TitleA, type |-> TypeDvd])}
    \cup {Obj([title |-> TitleA, type |-> TypeDvd, rating |-> r]) :
            r \in {Num(0), Num(5), Whole(5), Num(51)}}

\* Payloads for updateMedia: the empty one, one with no updatable key, the
\* ratings 0, 1.0 and 5.1, a title, and a title with the rating -1.0.
UpdatePayloads ==
    {EmptyObject,
     Obj([id |-> Whole(9), deleted |-> Whole(1), created_at |-> Whole(9)]),
     Obj([rating |-> Num(0)]),
     Obj([rating |-> Whole(1)]),
     Obj([rating |-> Num(51)]),
     Obj([title |-> TitleB]),
     Obj([title |-> TitleB, rating |-> Whole(0 - 1)])}

\* Payloads for importFromJSON: not an array; an item rated 9.0 followed by a
\* good one that carries an id and a deleted flag; a good item followed by null.
JsonPayloads ==
    {Obj([title |-> TitleA, type |-> TypeDvd]),
     Arr(<<Obj([title |-> TitleA, type |-> TypeDvd, rating |-> Whole(9)]),
           Obj([title |-> TitleA, type |-> TypeDvd, rating |-> Whole(5),
                id |-> Whole(1), deleted |-> Whole(1)])>>),
     Arr(<<Obj([title |-> TitleA, type |-> TypeDvd]), Null>>)}

\* Texts for importFromCSV.
CsvRatedRows ==
    \* id,title,type,rating\n1,A,dvd,9.0\n2,A,dvd,5.0
    <<"i", "d", ",", "t", "i", "t", "l", "e", ",", "t", "y", "p", "e", ",", "r", "a", "t", "i", "n", "g", "\n", "1", ",", "A", ",", "d", "v", "d", ",", "9", ".", "0", "\n", "2", ",", "A", ",", "d", "v", "d", ",", "5", ".", "0">>

CsvNoTitle ==
    \* id,type,rating\n1,dvd,3
    <<"i", "d", ",", "t", "y", "p", "e", ",", "r", "a", "t", "i", "n", "g", "\n", "1", ",", "d", "v", "d", ",", "3">>

CsvTexts == {CsvRatedRows, CsvNoTitle}

(***************************************************************************)
(* The store                                                               *)
(***************************************************************************)
Init ==
    /\ media = <<>>
    /\ seq = 0
    /\ now = 0
    /\ call = Call("init", 0, Undefined)
    /\ ret = RetNone
    /\ pre = <<>>
    /\ purged = {}
    /\ shell = ShellReady
    /\ page = PageLoaded

\* A second passes.
Tick ==
    /\ now < MaxTime
    /\ now' = now + 1
    /\ UNCHANGED <<media, seq, call, ret, pre, purged, shell, page>>

Next ==
    \/ Tick
    \/ \E item \in CreateItems : createMedia(item)
    \/ \E id \in Ids : getMediaById(id)
    \/ \E id \in Ids, updates \in UpdatePayloads : updateMedia(id, updates)
    \/ \E id \in Ids : softDeleteMedia(id)
    \/ \E id \in Ids : restoreMedia(id)
    \/ \E id \in Ids : permanentDeleteMedia(id)
    \/ \E jsonData \in JsonPayloads : importFromJSON(jsonData) /\ seq' <= MaxSeq
    \/ \E csvData \in CsvTexts : importFromCSV(csvData) /\ seq' <= MaxSeq

Spec == Init /\ [][Next]_vars

(***************************************************************************)
(* Criteria for getAllMedia                                                *)
(***************************************************************************)
\* A flag of the criteria: absent, false or true.
FlagValues == {Undefined, Bool(FALSE), Bool(TRUE)}

\* The criteria that hold only the two deletion flags.
DeletionOptions(inc, only) ==
    Obj((IF inc = Undefined THEN <<>> ELSE [includeDeleted |-> inc])
        @@ (IF only = Undefined THEN <<>> ELSE [onlyDeleted |-> only]))

\* The rows of the table by their deleted flag.
DeletedRows == {media[id] : id \in {i \in DOMAIN media : media[i].deleted = 1}}
LiveRows == {media[id] : id \in {i \in DOMAIN media : media[i].deleted = 0}}
AllRows == {media[id] : id \in DOMAIN media}

(***************************************************************************)
(* C1: getAll({onlyDeleted: true}) returns exactly the deleted records,    *)
(* whether includeDeleted is absent, false or true.                        *)
(***************************************************************************)
C1_OnlyDeletedGivesDeletedSet ==
    \A inc \in FlagValues :
        \A result \in getAllMedia(DeletionOptions(inc, Bool(TRUE))) :
            RowsOf(result) = DeletedRows

(***************************************************************************)
(* C2: when onlyDeleted is absent or false, getAll returns exactly the     *)
(* non-deleted records if includeDeleted is absent or false, and every     *)
(* stored record if includeDeleted is true.                                *)
(***************************************************************************)
C2_DeletionFilter ==
    /\ \A result \in getAllMedia(Undefined) : RowsOf(result) = LiveRows
    /\ \A only \in {Undefined, Bool(FALSE)} :
        /\ \A inc \in {Undefined, Bool(FALSE)} :
            \A result \in getAllMedia(DeletionOptions(inc, only)) :
                RowsOf(result) = LiveRows
        /\ \A result \in getAllMedia(DeletionOptions(Bool(TRUE), only)) :
                RowsOf(result) = AllRows

\* A deleted and a non-deleted record are stored, the second made by an import.
C2_Witness ==
    /\ call.op \in {"importFromJSON", "importFromCSV"}
    /\ ret.kind = "summary"
    /\ ret.success > 0
    /\ DeletedRows /= {}
    /\ LiveRows /= {}

(***************************************************************************)
(* C3: createMedia and updateMedia given a rating outside [1.0, 5.0] (0    *)
(* and negative values included) fail with a constraint error and leave    *)
(* the table as it was; given a rating inside the range they succeed and   *)
(* store that rating.                                                      *)
(***************************************************************************)
C3_RatingValidated ==
    LET r == Get(call.arg, "rating")
        judged == \/ call.op = "createMedia"
                  \/ call.op = "updateMedia" /\ call.id \in DOMAIN pre
    IN  (judged /\ r.t = "number") =>
            IF r.v >= 10 /\ r.v <= 50
            THEN /\ ret.kind = "row"
                 /\ ret.v.rating = r
                 /\ ret.v.id \in DOMAIN media
                 /\ media[ret.v.id].rating = r
            ELSE /\ ret.kind = "throw"
                 /\ media = pre

(***************************************************************************)
(* C4: every stored record has a rating that is null or within [1.0, 5.0]. *)
(***************************************************************************)
C4_StoredRatingInRange ==
    \A id \in DOMAIN media :
        \/ media[id].rating = Null
        \/ /\ media[id].rating.t = "number"
           /\ media[id].rating.v >= 10
           /\ media[id].rating.v <= 50

\* importFromCSV has turned away a row rated 9.0 and stored a row rated 5.0.
C4_Witness ==
    /\ call.op = "importFromCSV"
    /\ ret.kind = "summary"
    /\ ret.success = 1
    /\ Len(ret.errors) = 1
    /\ \E id \in DOMAIN media \ DOMAIN pre : media[id].rating = Whole(5)

(***************************************************************************)
(* C5: softDelete(id) and restore(id) on an existing record change no      *)
(* attribute other than deleted and updated_at and no other record;        *)
(* softDelete(id) followed by restore(id) leaves the record as it was      *)
(* before the pair except for updated_at.                                  *)
(***************************************************************************)
\* The last call was softDelete or restore of a stored record and changed
\* nothing but that record's deleted and updated_at.
C5_Frame ==
    (call.op \in {"softDeleteMedia", "restoreMedia"} /\ call.id \in DOMAIN pre) =>
        /\ DOMAIN media = DOMAIN pre
        /\ \A i \in DOMAIN pre : \A f \in DOMAIN pre[i] :
            (i /= call.id \/ f \notin {"deleted", "updated_at"}) =>
                media[i][f] = pre[i][f]

\* This step is restore(id), the call before it was softDelete(id) of a stored record.
C5_RestoreAfterSoftDelete ==
    /\ call.op = "softDeleteMedia"
    /\ call.id \in DOMAIN pre
    /\ call'.op = "restoreMedia"
    /\ call'.id = call.id

\* The table after the step is the table before the softDelete but for the
\* record's updated_at.
C5_BackToBefore ==
    /\ DOMAIN media' = DOMAIN pre
    /\ \A i \in DOMAIN pre : \A f \in DOMAIN pre[i] :
        (i /= call.id \/ f /= "updated_at") => media'[i][f] = pre[i][f]

\* The claim as stated: for every stored record.
C5_PairRestoresAnyRecord ==
    [][C5_Frame' /\ (C5_RestoreAfterSoftDelete => C5_BackToBefore)]_vars

\* The claim amended: the pair restores a record that was not deleted before it.
C5_PairRestoresLiveRecord ==
    [][C5_Frame' /\ ((C5_RestoreAfterSoftDelete /\ pre[call.id].deleted = 0)
                        => C5_BackToBefore)]_vars

\* restore(id) has brought back a rated record, a second later than the
\* softDelete, beside another record.
C5_Witness ==
    /\ call.op = "restoreMedia"
    /\ call.id \in DOMAIN pre
    /\ pre[call.id].deleted = 1
    /\ media[call.id].deleted = 0
    /\ media[call.id].rating /= Null
    /\ media[call.id].updated_at > pre[call.id].updated_at
    /\ Cardinality(DOMAIN media) = 2

(***************************************************************************)
(* C6: softDelete of an already deleted record returns true and leaves it  *)
(* deleted; restore of a record that is not deleted returns true and is a  *)
(* no-op on the record.                                                    *)
(***************************************************************************)
\* The claim as stated: the record after the restore is the record before it.
C6_RestoreOfLiveIsNoOp ==
    /\ (call.op = "softDeleteMedia" /\ call.id \in DOMAIN pre
            /\ pre[call.id].deleted = 1) =>
          /\ ret = RetBool(TRUE)
          /\ call.id \in DOMAIN media
          /\ media[call.id].deleted = 1
    /\ (call.op = "restoreMedia" /\ call.id \in DOMAIN pre
            /\ pre[call.id].deleted = 0) =>
          /\ ret = RetBool(TRUE)
          /\ call.id \in DOMAIN media
          /\ media[call.id] = pre[call.id]

\* The claim amended: the restore leaves the record not deleted and every
\* attribute but updated_at as it was.
C6_IdempotentOnDeletedFlag ==
    /\ (call.op = "softDeleteMedia" /\ call.id \in DOMAIN pre
            /\ pre[call.id].deleted = 1) =>
          /\ ret = RetBool(TRUE)
          /\ call.id \in DOMAIN media
          /\ media[call.id].deleted = 1
    /\ (call.op = "restoreMedia" /\ call.id \in DOMAIN pre
            /\ pre[call.id].deleted = 0) =>
          /\ ret = RetBool(TRUE)
          /\ call.id \in DOMAIN media
          /\ media[call.id].deleted = 0
          /\ \A f \in DOMAIN pre[call.id] \ {"updated_at"} :
                media[call.id][f] = pre[call.id][f]

\* restore(id) was called on a record that is not deleted, a second after the
\* record was last written.
C6_Witness ==
    /\ call.op = "restoreMedia"
    /\ call.id \in DOMAIN pre
    /\ pre[call.id].deleted = 0
    /\ ret = RetBool(TRUE)
    /\ call.at > pre[call.id].updated_at

(***************************************************************************)
(* C7: permanentDelete(id) removes a stored record whatever its deleted    *)
(* flag and returns true; from then on getById(id) gives null, restore(id) *)
(* gives false and no getAll result holds a record with that id.           *)
(***************************************************************************)
C7_PermanentDeleteIsFinal ==
    /\ (call.op = "permanentDeleteMedia" /\ call.id \in DOMAIN pre) =>
          /\ ret = RetBool(TRUE)
          /\ call.id \notin DOMAIN media
    /\ \A id \in purged :
          /\ id \notin DOMAIN media
          /\ (call.op = "getMediaById" /\ call.id = id) => ret = RetNull
          /\ (call.op = "restoreMedia" /\ call.id = id) => ret = RetBool(FALSE)
          /\ \A inc \in FlagValues, only \in FlagValues :
                \A result \in getAllMedia(DeletionOptions(inc, only)) :
                    \A r \in RowsOf(result) : r.id /= id

\* A record has been removed for good and a record has been created since,
\* under a larger id.
C7_Witness ==
    /\ purged /= {}
    /\ call.op = "createMedia"
    /\ ret.kind = "row"
    /\ \A id \in purged : ret.v.id > id

(***************************************************************************)
(* C8: update(id, p) on a stored record leaves every attribute whose key   *)
(* is absent from p as it was (but updated_at), never changes id, deleted  *)
(* and created_at, and leaves every other record as it was.                *)
(***************************************************************************)
C8_UpdateFrame ==
    (call.op = "updateMedia" /\ call.id \in DOMAIN pre) =>
        /\ DOMAIN media = DOMAIN pre
        /\ \A i \in DOMAIN pre \ {call.id} : media[i] = pre[i]
        /\ \A f \in DOMAIN pre[call.id] \ {"updated_at"} :
              (f \notin DOMAIN call.arg.v \/ f \in {"id", "deleted", "created_at"}) =>
                  media[call.id][f] = pre[call.id][f]

\* update(id, {title}) has changed the title of a rated record.
C8_Witness ==
    /\ call.op = "updateMedia"
    /\ call.id \in DOMAIN pre
    /\ ret.kind = "row"
    /\ DOMAIN call.arg.v = {"title"}
    /\ media[call.id].title /= pre[call.id].title
    /\ pre[call.id].rating /= Null

(***************************************************************************)
(* C9: for an id that is not stored, getById and update return null,       *)
(* softDelete, restore and permanentDelete return false; none throws and   *)
(* none changes the table.                                                 *)
(***************************************************************************)
C9_MissingIdReported ==
    (call.op \in {"getMediaById", "updateMedia", "softDeleteMedia",
                  "restoreMedia", "permanentDeleteMedia"}
        /\ call.id \notin DOMAIN pre) =>
        /\ media = pre
        /\ ret.kind /= "throw"
        /\ call.op \in {"getMediaById", "updateMedia"} => ret = RetNull
        /\ call.op \in {"softDeleteMedia", "restoreMedia", "permanentDeleteMedia"}
              => ret = RetBool(FALSE)

\* update was called with the rating 5.1 for an id that is not stored, while
\* another record is.
C9_Witness ==
    /\ call.op = "updateMedia"
    /\ call.id \notin DOMAIN pre
    /\ call.arg = Obj([rating |-> Num(51)])
    /\ pre /= <<>>

(***************************************************************************)
(* C10: every update, softDelete or restore of a stored record that does   *)
(* not throw sets the record's updated_at to the time of the call,         *)
(* whatever the payload.                                                   *)
(***************************************************************************)
C10_UpdatedAtRefreshed ==
    (call.op \in {"updateMedia", "softDeleteMedia", "restoreMedia"}
        /\ call.id \in DOMAIN pre
        /\ ret.kind /= "throw") =>
        media[call.id].updated_at = call.at

(***************************************************************************)
(* C11: every stored record keeps the created_at it was given when it was  *)
(* created, whatever is called, and its updated_at is never before its     *)
(* created_at.                                                             *)
(***************************************************************************)
C11_CreatedAtKept ==
    /\ \A id \in DOMAIN media : media[id].updated_at >= media[id].created_at
    /\ \A id \in DOMAIN media \cap DOMAIN pre :
          media[id].created_at = pre[id].created_at
    /\ \A id \in DOMAIN media \ DOMAIN pre : media[id].created_at = call.at

\* A record made a second ago has just been written by update, softDelete or
\* restore.
C11_Witness ==
    /\ call.op \in {"updateMedia", "softDeleteMedia", "restoreMedia"}
    /\ call.id \in DOMAIN media
    /\ media[call.id] /= pre[call.id]
    /\ media[call.id].updated_at > media[call.id].created_at

(***************************************************************************)
(* C12: no two stored records share an id, no call changes the id of a     *)
(* record, and a record made by create or import never gets the id of a    *)
(* record that exists, existed before the call or was permanently deleted. *)
(***************************************************************************)
C12_IdsUniqueAndStable ==
    /\ \A i \in DOMAIN media : media[i].id = i
    /\ \A i, j \in DOMAIN media : media[i].id = media[j].id => i = j
    /\ \A i \in DOMAIN media \cap DOMAIN pre : media[i].id = pre[i].id
    /\ call.op \in {"getMediaById", "updateMedia", "softDeleteMedia", "restoreMedia"} =>
          /\ DOMAIN media = DOMAIN pre
          /\ ret.kind = "row" => ret.v.id = call.id
    /\ purged \cap DOMAIN media = {}
    /\ \A i \in DOMAIN media \ DOMAIN pre :
          /\ call.op \in {"createMedia", "importFromJSON", "importFromCSV"}
          /\ \A j \in DOMAIN pre \cup purged : i > j

\* An import has made a record after a record was permanently deleted.
C12_Witness ==
    /\ call.op \in {"importFromJSON", "importFromCSV"}
    /\ ret.kind = "summary"
    /\ ret.success > 0
    /\ purged /= {}
    /\ DOMAIN media \ DOMAIN pre /= {}

(***************************************************************************)
(* Queries over a filled table                                             *)
(*                                                                         *)
(* The table holds one record per rating of QueryRatings, made one a       *)
(* second in that order; each is of one of QueryKinds, and at most one of  *)
(* them was soft-deleted later.                                            *)
(***************************************************************************)
TypeGame == Str(<<"g", "a", "m", "e">>)
BrandNike == Str(<<"N", "i", "k", "e">>)
BrandSony == Str(<<"S", "o", "n", "y">>)
SystemPS5 == Str(<<"P", "S", "5">>)

QueryRatings == <<Null, Whole(3), Whole(4), Whole(5)>>

QueryKinds ==
    {[title |-> TitleA, type |-> TypeDvd, brand |-> BrandNike, system |-> Null],
     [title |-> TitleA, type |-> TypeGame, brand |-> BrandNike, system |-> SystemPS5],
     [title |-> TitleB, type |-> TypeGame, brand |-> BrandSony, system |-> Null]}

QueryIds == DOMAIN QueryRatings

\* The row createMedia makes of a kind and a rating at second id - 1, after
\* softDeleteMedia at second Len(QueryRatings) + id - 1 when d is 1.
QueryRow(id, kind, d) ==
    LET item == Obj(kind @@ [rating |-> QueryRatings[id]])
        r == NewRow(id, InsertParams(item), id - 1)
    IN  IF d = 1
        THEN SetDeleted(id :> r, id, 1, Len(QueryRatings) + id - 1)[id]
        ELSE r

\* The sets of records that were soft-deleted: none or one of them.
QueryDeleted == {{}} \cup {{id} : id \in QueryIds}

QueryTables ==
    {[id \in QueryIds |-> QueryRow(id, k[id], IF id \in ds THEN 1 ELSE 0)] :
        k \in [QueryIds -> QueryKinds], ds \in QueryDeleted}

\* A criterion that is not among the keys of the options.
Absent == [t |-> "absent"]

Criterion(k, v) == IF v = Absent THEN <<>> ELSE k :> v

\* Options of getAllMedia: a criterion is not given, undefined or a value,
\* includeDeleted added; and the options with one criterion that is falsy
\* (the empty text, the threshold 0), alone or next to a type.
QueryOptions ==
    {Obj(Criterion("type", ty) @@ Criterion("brand", b) @@ Criterion("system", sy)
            @@ Criterion("minRating", m) @@ Criterion("includeDeleted", inc)) :
        ty \in {Absent, TypeGame},
        b \in {Absent, BrandNike},
        sy \in {Absent, SystemPS5},
        m \in {Absent, Undefined, Whole(4)},
        inc \in {Absent, Bool(TRUE)}}
    \cup {Obj(Criterion("type", ty) @@ falsy) :
             ty \in {Absent, TypeGame},
             falsy \in {"brand" :> Str(<<>>), "system" :> Str(<<>>),
                        "minRating" :> Whole(0)}}
    \cup {Obj("type" :> Str(<<>>))}
    \cup {Undefined}

QueryInit ==
    /\ media \in QueryTables
    /\ seq = Len(QueryRatings)
    /\ now = 2 * Len(QueryRatings)
    /\ call = Call("init", 0, Undefined)
    /\ ret = RetNone
    /\ pre = media
    /\ purged = {}
    /\ shell = ShellReady
    /\ page = PageLoaded

\* ipcMain.handle('media:getAll', ...): repo.getAllMedia(options)
media_getAll(options) ==
    /\ \E result \in getAllMedia(options) : ret' = RetRows(result)
    /\ call' = Call("getAllMedia", 0, options)
    /\ pre' = media
    /\ UNCHANGED <<media, seq, now, purged, shell, page>>

QueryNext == \E options \in QueryOptions : media_getAll(options)

QuerySpec == QueryInit /\ [][QueryNext]_vars

(***************************************************************************)
(* C13: getAll returns exactly the records that meet every criterion that  *)
(* is present (type, brand and system by equality, rating >= minRating)    *)
(* and the deletion filter; a criterion that is absent excludes nothing,   *)
(* and a record without a rating is never returned when minRating is       *)
(* present: minRating 4 alone over the ratings null, 3.0, 4.0 and 5.0      *)
(* returns the live records rated 4.0 and 5.0.                             *)
(***************************************************************************)
\* The criterion k of the last call, Absent when the call gave none.
C13_Criterion(k) ==
    IF call.arg = Undefined \/ ~HasOwn(call.arg, k) \/ Get(call.arg, k) = Undefined
    THEN Absent
    ELSE Get(call.arg, k)

\* The record r meets the criteria of the last call.
C13_Meets(r) ==
    /\ \A k \in {"type", "brand", "system"} :
          C13_Criterion(k) /= Absent => r[k] = C13_Criterion(k)
    /\ C13_Criterion("minRating") /= Absent =>
          /\ r.rating /= Null
          /\ r.rating.v >= C13_Criterion("minRating").v
    /\ C13_Criterion("includeDeleted") /= Bool(TRUE) => r.deleted = 0

C13_ExactlyTheMatches ==
    call.op = "getAllMedia" =>
        /\ ret.kind = "rows"
        /\ RowsOf(ret.v) = {media[id] : id \in {i \in DOMAIN media : C13_Meets(media[i])}}
        /\ \A i, j \in DOMAIN ret.v : ret.v[i].id = ret.v[j].id => i = j
        /\ call.arg = Obj([minRating |-> Whole(4)]) =>
              {r.rating : r \in RowsOf(ret.v)} \subseteq {Whole(4), Whole(5)}

(***************************************************************************)
(* C14: getAll returns the records by descending updated_at, and a second  *)
(* key fixes the order of records with the same updated_at, so the table   *)
(* and the criteria determine the sequence getAll returns.                 *)
(***************************************************************************)
C14_OrderDetermined ==
    \A inc \in {Undefined, Bool(TRUE)} :
        \A r1, r2 \in getAllMedia(DeletionOptions(inc, Undefined)) :
            /\ r1 = r2
            /\ \A i, j \in DOMAIN r1 : i < j => r1[i].updated_at >= r1[j].updated_at

(***************************************************************************)
(* getBrands, getSizes, getTypes                                           *)
(***************************************************************************)
\* The characters of the model in the order of their codes.
Ascii ==
    <<"\n", " ", "\"", ",", "-", ".", "0", "1", "2", "3", "4", "5", "6", "7", "8", "9", ":",
      "A", "B", "C", "D", "E", "F", "G", "H", "I", "J", "K", "L", "M",
      "N", "O", "P", "Q", "R", "S", "T", "U", "V", "W", "X", "Y", "Z", "[", "\\", "]", "_",
      "a", "b", "c", "d", "e", "f", "g", "h", "i", "j", "k", "l", "m",
      "n", "o", "p", "q", "r", "s", "t", "u", "v", "w", "x", "y", "z", "{", "}">>

CharCode(c) == CHOOSE i \in DOMAIN Ascii : Ascii[i] = c

\* a < b for two texts under the collation BINARY (memcmp, the shorter first).
RECURSIVE TextLess(_, _)
TextLess(a, b) ==
    IF b = <<>> THEN FALSE
    ELSE IF a = <<>> THEN TRUE
    ELSE IF Head(a) /= Head(b) THEN CharCode(Head(a)) < CharCode(Head(b))
    ELSE TextLess(Tail(a), Tail(b))

\* The texts of a set in ascending order.
SortedTexts(values) ==
    CHOOSE s \in [1..Cardinality(values) -> values] :
        \A i, j \in DOMAIN s : i < j => TextLess(s[i].v, s[j].v)

\* db.prepare('SELECT DISTINCT brand FROM media
\*   WHERE brand IS NOT NULL AND brand != "" AND deleted = 0 ORDER BY brand'):
\* better-sqlite3 builds SQLite with SQLITE_DQS=0, where a token in double
\* quotes is an identifier and never a string, so "" names a column the
\* table does not have and the statement does not compile, whatever the
\* table holds: SqliteError, code SQLITE_ERROR (no such column: "").
getBrandsIn(tbl) == RetThrow("SQLITE_ERROR")

\* db.prepare('SELECT DISTINCT size FROM media
\*   WHERE size IS NOT NULL AND size != "" AND deleted = 0 ORDER BY size'):
\* the same "" and the same SqliteError.
getSizesIn(tbl) == RetThrow("SQLITE_ERROR")

\* SELECT DISTINCT type FROM media WHERE deleted = 0 ORDER BY type
getTypesIn(tbl) ==
    SortedTexts({tbl[id].type : id \in {i \in DOMAIN tbl : tbl[i].deleted = 0}})

RetList(values) == [kind |-> "list", v |-> values]

getBrands ==
    /\ ret' = getBrandsIn(media)
    /\ call' = Call("getBrands", 0, Undefined)
    /\ pre' = media
    /\ UNCHANGED <<media, seq, now, purged, shell, page>>

getSizes ==
    /\ ret' = getSizesIn(media)
    /\ call' = Call("getSizes", 0, Undefined)
    /\ pre' = media
    /\ UNCHANGED <<media, seq, now, purged, shell, page>>

getTypes ==
    /\ ret' = RetList(getTypesIn(media))
    /\ call' = Call("getTypes", 0, Undefined)
    /\ pre' = media
    /\ UNCHANGED <<media, seq, now, purged, shell, page>>

(***************************************************************************)
(* Distinct values over a filled table                                     *)
(*                                                                         *)
(* The table holds MaxRows records, each made by createMedia of one of     *)
(* DistinctItems in second 0 and either live or soft-deleted in second 1.  *)
(***************************************************************************)
MaxRows == 3

SizeTen == Str(<<"1", "0">>)
SizeNine == Str(<<"9">>)

\* Items with and without a type, a brand and a size; the last gives the
\* brand and the size as empty texts.
DistinctItems ==
    {Obj([title |-> TitleA, type |-> TypeDvd, brand |-> BrandSony, size |-> SizeTen]),
     Obj([title |-> TitleA, type |-> TypeGame, brand |-> BrandNike, size |-> SizeNine]),
     Obj([title |-> TitleA, brand |-> BrandNike]),
     Obj([title |-> TitleB, type |-> TypeDvd, brand |-> Str(<<>>), size |-> Str(<<>>)])}

DistinctRow(id, item, d) ==
    LET r == NewRow(id, InsertParams(item), 0)
    IN  IF d = 1 THEN SetDeleted(id :> r, id, 1, 1)[id] ELSE r

DistinctTables ==
    {[id \in 1..MaxRows |-> DistinctRow(id, it[id], d[id])] :
        it \in [1..MaxRows -> DistinctItems], d \in [1..MaxRows -> {0, 1}]}

DistinctInit ==
    /\ media \in DistinctTables
    /\ seq = MaxRows
    /\ now = 1
    /\ call = Call("init", 0, Undefined)
    /\ ret = RetNone
    /\ pre = media
    /\ purged = {}
    /\ shell = ShellReady
    /\ page = PageLoaded

DistinctNext == getBrands \/ getSizes \/ getTypes

DistinctSpec == DistinctInit /\ [][DistinctNext]_vars

(***************************************************************************)
(* C15: getBrands, getSizes and getTypes return, in ascending order and    *)
(* without duplicates, exactly the values of their column that are not     *)
(* null and not empty on some record that is not deleted.                  *)
(***************************************************************************)
\* The column the last call lists.
C15_Column ==
    CASE call.op = "getBrands" -> "brand"
      [] call.op = "getSizes"  -> "size"
      [] call.op = "getTypes"  -> "type"

C15_DistinctValues ==
    call.op \in {"getBrands", "getSizes", "getTypes"} =>
        /\ ret.kind = "list"
        /\ \A i, j \in DOMAIN ret.v : i < j => TextLess(ret.v[i].v, ret.v[j].v)
        /\ {ret.v[i] : i \in DOMAIN ret.v} =
              {media[id][C15_Column] : id \in
                  {i \in DOMAIN media : /\ media[i].deleted = 0
                                        /\ media[i][C15_Column] /= Null
                                        /\ media[i][C15_Column] /= Str(<<>>)}}

(***************************************************************************)
(* Rows as the values stmt.all returns, and their texts                    *)
(***************************************************************************)
\* The decimal digits of a natural number.
RECURSIVE IntText(_)
IntText(n) ==
    IF n < 10 THEN <<Digits[n + 1]>>
    ELSE IntText(n \div 10) \o <<Digits[(n % 10) + 1]>>

\* String(x) for a number x held in tenths.
NumberText(n) ==
    LET a == IF n < 0 THEN 0 - n ELSE n
    IN  (IF n < 0 THEN <<"-">> ELSE <<>>)
        \o IntText(a \div 10)
        \o (IF a % 10 = 0 THEN <<>> ELSE <<".", Digits[(a % 10) + 1]>>)

\* CURRENT_TIMESTAMP as SQLite writes it, 'YYYY-MM-DD HH:MM:SS', second t
\* being t seconds into 1970 (t < 60).
TimeText(t) ==
    <<"1", "9", "7", "0", "-", "0", "1", "-", "0", "1", " ", "0", "0", ":", "0", "0", ":">>
        \o (IF t < 10 THEN <<"0">> ELSE <<>>) \o IntText(t)

\* item[col] for a row of stmt.all.
RowValue(r, col) ==
    IF col \in {"id", "deleted"} THEN Whole(r[col])
    ELSE IF col \in {"created_at", "updated_at"} THEN Str(TimeText(r[col]))
    ELSE r[col]

\* The texts of a sequence joined by sep.
RECURSIVE Join(_, _)
Join(texts, sep) ==
    IF texts = <<>> THEN <<>>
    ELSE IF Len(texts) = 1 THEN texts[1]
    ELSE texts[1] \o sep \o Join(Tail(texts), sep)

(***************************************************************************)
(* exportToJSON: JSON.stringify(items, null, 2)                            *)
(***************************************************************************)
\* The characters of a JSON string for the characters of s.
RECURSIVE EscapeJSON(_)
EscapeJSON(s) ==
    IF s = <<>> THEN <<>>
    ELSE (CASE Head(s) = "\"" -> <<"\\", "\"">>
            [] Head(s) = "\\" -> <<"\\", "\\">>
            [] Head(s) = "\n" -> <<"\\", "n">>
            [] Head(s) = "\r" -> <<"\\", "r">>
            [] Head(s) = "\t" -> <<"\\", "t">>
            [] OTHER -> <<Head(s)>>)
         \o EscapeJSON(Tail(s))

QuoteJSON(s) == <<"\"">> \o EscapeJSON(s) \o <<"\"">>

\* JSON.stringify of a value that is null, a number, a string or a boolean.
ValueText(v) ==
    CASE v.t = "null"    -> <<"n", "u", "l", "l">>
      [] v.t = "number"  -> NumberText(v.v)
      [] v.t = "string"  -> QuoteJSON(v.v)
      [] v.t = "boolean" -> IF v.v THEN <<"t", "r", "u", "e">> ELSE <<"f", "a", "l", "s", "e">>

\* A row as a member of the array, indented by two spaces, its members by four.
RowText(r) ==
    <<" ", " ", "{", "\n">>
    \o Join([k \in DOMAIN columns |->
                <<" ", " ", " ", " ">> \o QuoteJSON(ColumnText(columns[k]))
                \o <<":", " ">> \o ValueText(RowValue(r, columns[k]))],
            <<",", "\n">>)
    \o <<"\n", " ", " ", "}">>

\* JSON.stringify(items, null, 2) for the rows of a result.
JSONstringify(items) ==
    IF items = <<>> THEN <<"[", "]">>
    ELSE <<"[", "\n">>
         \o Join([k \in DOMAIN items |-> RowText(items[k])], <<",", "\n">>)
         \o <<"\n", "]">>

\* The texts exportToJSON(includeDeleted) may return for the table tbl.
exportToJSONIn(tbl, includeDeleted) ==
    {JSONstringify(items) :
        items \in getAllMediaIn(tbl, Obj([includeDeleted |-> includeDeleted]))}

RetText(text) == [kind |-> "text", v |-> text]

exportToJSON(includeDeleted) ==
    /\ \E text \in exportToJSONIn(media, includeDeleted) : ret' = RetText(text)
    /\ call' = Call("exportToJSON", 0, includeDeleted)
    /\ pre' = media
    /\ UNCHANGED <<media, seq, now, purged, shell, page>>

(***************************************************************************)
(* exportToCSV                                                             *)
(***************************************************************************)
\* The header row of exportToCSV.
headers ==
    <<"id", "title", "type", "description", "isbn_sku", "image", "rating",
      "quantity", "size", "brand", "system", "deleted", "created_at", "updated_at">>

\* str.replace(/"/g, '""')
RECURSIVE DoubleQuotes(_)
DoubleQuotes(s) ==
    IF s = <<>> THEN <<>>
    ELSE (IF Head(s) = "\"" THEN <<"\"", "\"">> ELSE <<Head(s)>>) \o DoubleQuotes(Tail(s))

\* str.includes(c)
Includes(s, c) == \E i \in DOMAIN s : s[i] = c

\* String(value) for a number or a string.
StringOf(v) == IF v.t = "number" THEN NumberText(v.v) ELSE v.v

escapeCSV(value) ==
    IF value \in {Null, Undefined} THEN <<>>
    ELSE LET str == StringOf(value)
         IN  IF Includes(str, ",") \/ Includes(str, "\"") \/ Includes(str, "\n")
             THEN <<"\"">> \o DoubleQuotes(str) \o <<"\"">>
             ELSE str

\* headers.map(header => escapeCSV(item[header])).join(',')
CsvRow(r) ==
    Join([k \in DOMAIN headers |-> escapeCSV(RowValue(r, headers[k]))], <<",">>)

\* rows.join('\n'), '' when there is no item.
CsvText(items) ==
    IF Len(items) = 0 THEN <<>>
    ELSE Join(<<Join([k \in DOMAIN headers |-> ColumnText(headers[k])], <<",">>)>>
              \o [k \in DOMAIN items |-> CsvRow(items[k])], <<"\n">>)

\* The texts exportToCSV(includeDeleted) may return for the table tbl.
exportToCSVIn(tbl, includeDeleted) ==
    {CsvText(items) :
        items \in getAllMediaIn(tbl, Obj([includeDeleted |-> includeDeleted]))}

exportToCSV(includeDeleted) ==
    /\ \E text \in exportToCSVIn(media, includeDeleted) : ret' = RetText(text)
    /\ call' = Call("exportToCSV", 0, includeDeleted)
    /\ pre' = media
    /\ UNCHANGED <<media, seq, now, purged, shell, page>>

(***************************************************************************)
(* Export followed by import                                               *)
(*                                                                         *)
(* The store starts empty or with one record rated 4.5, made in second 0   *)
(* and live or soft-deleted; an import reads the text the last export      *)
(* returned.                                                               *)
(***************************************************************************)
MaxTransferSeq == 3

\* G, "S" E
TitleQuoted == Str(<<"G", ",", " ", "\"", "S", "\"", " ", "E">>)
\* A comma and a space at the end.
TitleSpaced == Str(<<"A", ",", " ">>)
\* Two lines.
TitleTwoLines == Str(<<"A", "\n", "B">>)

TransferItems ==
    {Obj([title |-> t, type |-> TypeDvd, rating |-> Num(45)]) :
        t \in {TitleA, TitleQuoted, TitleSpaced, TitleTwoLines}}

TransferRow(item, d) ==
    LET r == NewRow(1, InsertParams(item), 0)
    IN  IF d = 1 THEN SetDeleted(1 :> r, 1, 1, 0)[1] ELSE r

TransferTables ==
    {<<>>} \cup {<<TransferRow(item, d)>> : item \in TransferItems, d \in {0, 1}}

TransferInit ==
    /\ media \in TransferTables
    /\ seq = Len(media)
    /\ now = 0
    /\ call = Call("init", 0, Undefined)
    /\ ret = RetNone
    /\ pre = media
    /\ purged = {}
    /\ shell = ShellReady
    /\ page = PageLoaded

TransferNext ==
    \/ Tick
    \/ \E includeDeleted \in {Bool(FALSE), Bool(TRUE)} : exportToJSON(includeDeleted)
    \/ \E includeDeleted \in {Bool(FALSE), Bool(TRUE)} : exportToCSV(includeDeleted)
    \/ /\ call.op = "exportToJSON"
       /\ importFromJSON(Str(ret.v))
       /\ seq' <= MaxTransferSeq
    \/ /\ call.op = "exportToCSV"
       /\ importFromCSV(ret.v)
       /\ seq' <= MaxTransferSeq

TransferSpec == TransferInit /\ [][TransferNext]_vars

\* The ids of the records of tbl an export with includeDeleted writes.
ExportedIds(tbl, includeDeleted) ==
    {i \in DOMAIN tbl : includeDeleted = Bool(TRUE) \/ tbl[i].deleted = 0}

\* The ids of the records the last call made.
NewIds == DOMAIN media \ DOMAIN pre

(***************************************************************************)
(* C16: importFromJSON of the text exportToJSON(includeDeleted) returned   *)
(* makes one record per exported record, with every attribute but id       *)
(* (deleted, created_at and updated_at included) as the exported record    *)
(* has it.                                                                 *)
(***************************************************************************)
C16_JsonRoundTrip ==
    (call.op = "importFromJSON" /\ call.arg.t = "string") =>
        \A includeDeleted \in {Bool(FALSE), Bool(TRUE)} :
            call.arg.v \in exportToJSONIn(pre, includeDeleted) =>
                \E f \in [ExportedIds(pre, includeDeleted) -> NewIds] :
                    /\ \A j \in NewIds : \E i \in DOMAIN f : f[i] = j
                    /\ \A i, k \in DOMAIN f : f[i] = f[k] => i = k
                    /\ \A i \in DOMAIN f : \A col \in DOMAIN pre[i] \ {"id"} :
                          media[f[i]][col] = pre[i][col]

(***************************************************************************)
(* C17: importFromCSV of the text exportToCSV returned makes, for every    *)
(* exported record whose title holds a comma or a double quote, a record   *)
(* with exactly that title.                                                *)
(***************************************************************************)
C17_TitleRoundTrip ==
    call.op = "importFromCSV" =>
        \A includeDeleted \in {Bool(FALSE), Bool(TRUE)} :
            call.arg.v \in exportToCSVIn(pre, includeDeleted) =>
                \A i \in ExportedIds(pre, includeDeleted) :
                    (Includes(pre[i].title.v, ",") \/ Includes(pre[i].title.v, "\"")) =>
                        \E j \in NewIds : media[j].title = pre[i].title

(***************************************************************************)
(* C18: a record whose title holds a newline is exported as one quoted     *)
(* field, and importFromCSV of that text makes exactly one record for it,  *)
(* with that title and without an error entry.                             *)
(***************************************************************************)
C18_NewlineRoundTrip ==
    call.op = "importFromCSV" =>
        \A includeDeleted \in {Bool(FALSE), Bool(TRUE)} :
            call.arg.v \in exportToCSVIn(pre, includeDeleted) =>
                \A i \in ExportedIds(pre, includeDeleted) :
                    Includes(pre[i].title.v, "\n") =>
                        /\ ret.kind = "summary"
                        /\ ret.errors = <<>>
                        /\ Cardinality(NewIds) = Cardinality(ExportedIds(pre, includeDeleted))
                        /\ \E j \in NewIds : media[j].title = pre[i].title

(***************************************************************************)
(* importFromCSV of written texts                                          *)
(*                                                                         *)
(* The store starts empty; the texts differ in the place of the title,     *)
(* type and rating columns, in the columns they have, and in the ratings   *)
(* of their rows.                                                          *)
(***************************************************************************)
MaxCsvSeq == 3

CsvTitleFirst ==
    \* title,type\nA,dvd
    <<"t", "i", "t", "l", "e", ",", "t", "y", "p", "e", "\n", "A", ",", "d", "v", "d">>

CsvTypeFirst ==
    \* type,title\ndvd,A
    <<"t", "y", "p", "e", ",", "t", "i", "t", "l", "e", "\n", "d", "v", "d", ",", "A">>

CsvReordered ==
    \* id,type,title,extra,rating\n7,dvd,A,zzz,4.5
    <<"i", "d", ",", "t", "y", "p", "e", ",", "t", "i", "t", "l", "e", ",", "e", "x", "t", "r", "a", ",", "r", "a", "t", "i", "n", "g", "\n", "7", ",", "d", "v", "d", ",", "A", ",", "z", "z", "z", ",", "4", ".", "5">>

CsvNoType ==
    \* id,title,rating\n1,A,3
    <<"i", "d", ",", "t", "i", "t", "l", "e", ",", "r", "a", "t", "i", "n", "g", "\n", "1", ",", "A", ",", "3">>

CsvRatingFirst ==
    \* rating,title,type\n4.5,A,dvd
    <<"r", "a", "t", "i", "n", "g", ",", "t", "i", "t", "l", "e", ",", "t", "y", "p", "e", "\n", "4", ".", "5", ",", "A", ",", "d", "v", "d">>

CsvThreeRows ==
    \* id,title,type,rating\n1,A,dvd,5\n2,A,dvd,9.0\n3,B,dvd,4.5
    <<"i", "d", ",", "t", "i", "t", "l", "e", ",", "t", "y", "p", "e", ",", "r", "a", "t", "i", "n", "g", "\n", "1", ",", "A", ",", "d", "v", "d", ",", "5", "\n", "2", ",", "A", ",", "d", "v", "d", ",", "9", ".", "0", "\n", "3", ",", "B", ",", "d", "v", "d", ",", "4", ".", "5">>

CsvRatedZero ==
    \* id,title,type,rating\n1,A,dvd,0
    <<"i", "d", ",", "t", "i", "t", "l", "e", ",", "t", "y", "p", "e", ",", "r", "a", "t", "i", "n", "g", "\n", "1", ",", "A", ",", "d", "v", "d", ",", "0">>

CsvBlobs ==
    {CsvTitleFirst, CsvTypeFirst, CsvReordered, CsvNoTitle, CsvNoType,
     CsvRatingFirst, CsvRatedRows, CsvThreeRows, CsvRatedZero}

CsvNext ==
    \/ Tick
    \/ \E csvData \in CsvBlobs : importFromCSV(csvData) /\ seq' <= MaxCsvSeq

CsvSpec == Init /\ [][CsvNext]_vars

\* What importFromCSV returns when it rejects the header row.
RetNoColumns ==
    RetSummary(0, <<ErrorEntry("CSV", Null, "CSV must have \"title\" and \"type\" columns")>>)

\* The header row of a text has the column name.
HasColumn(csvData, name) ==
    IndexOf(CsvHeaders(CsvLines(csvData)[1]), HeaderText(name)) /= -1

\* The cell of data row k (counted from 1) under the column name; the empty
\* text when the row has no such cell.
CellOf(csvData, k, name) ==
    LET at == IndexOf(CsvHeaders(CsvLines(csvData)[1]), HeaderText(name)) + 1
        cells == parseCSVLine(CsvLines(csvData)[k + 1])
    IN  IF at \in DOMAIN cells THEN cells[at] ELSE <<>>

\* The data rows of a text, counted from 1.
DataRows(csvData) == 1..(Len(CsvLines(csvData)) - 1)

\* The rating cell of data row k writes a number outside [1.0, 5.0].
RatedOutside(csvData, k) ==
    /\ HasColumn(csvData, "rating")
    /\ parseFloat(Str(CellOf(csvData, k, "rating"))).t = "number"
    /\ \/ parseFloat(Str(CellOf(csvData, k, "rating"))).v < 10
       \/ parseFloat(Str(CellOf(csvData, k, "rating"))).v > 50

(***************************************************************************)
(* C19: importFromCSV rejects the batch, making no record, exactly when    *)
(* the header row has no title column or no type column; otherwise every   *)
(* data row is worked on and the title, type and rating of the record it   *)
(* makes are the cells under those columns, wherever the columns stand.    *)
(***************************************************************************)
C19_HeaderRule ==
    (call.op = "importFromCSV" /\ call.arg.v \in CsvBlobs) =>
        /\ (ret = RetNoColumns /\ media = pre) <=>
              (~HasColumn(call.arg.v, "title") \/ ~HasColumn(call.arg.v, "type"))
        /\ (HasColumn(call.arg.v, "title") /\ HasColumn(call.arg.v, "type")) =>
              \A k \in DataRows(call.arg.v) :
                  ~RatedOutside(call.arg.v, k) =>
                      \E j \in NewIds :
                          /\ media[j].title = Str(CellOf(call.arg.v, k, "title"))
                          /\ media[j].type = Str(CellOf(call.arg.v, k, "type"))
                          /\ HasColumn(call.arg.v, "rating") =>
                                media[j].rating = parseFloat(Str(CellOf(call.arg.v, k, "rating")))

(***************************************************************************)
(* C20: importFromCSV of n data rows, k of them with a rating outside      *)
(* [1.0, 5.0], makes n - k records and returns n - k as the count and k     *)
(* error entries, in the order of the rows, each with the number of its    *)
(* row (the header row being row 1); the rows after a failing row are      *)
(* still worked on.                                                        *)
(***************************************************************************)
C20_RowsInsertedOrReported ==
    (call.op = "importFromCSV" /\ call.arg.v \in CsvBlobs
        /\ HasColumn(call.arg.v, "title") /\ HasColumn(call.arg.v, "type")
        /\ ~(ret = RetNoColumns)) =>
        LET rows == DataRows(call.arg.v)
            bad == {k \in rows : RatedOutside(call.arg.v, k)}
            badInOrder == SelectSeq([k \in rows |-> k], LAMBDA k : k \in bad)
        IN  /\ ret.kind = "summary"
            /\ ret.success = Cardinality(rows) - Cardinality(bad)
            /\ Cardinality(NewIds) = Cardinality(rows) - Cardinality(bad)
            /\ Len(ret.errors) = Cardinality(bad)
            /\ \A m \in DOMAIN ret.errors :
                  /\ ret.errors[m].kind = "Row"
                  /\ ret.errors[m].label = Whole(badInOrder[m] + 1)

(***************************************************************************)
(* Imports into a store that holds records: the handlers media:importJSON  *)
(* and media:importCSV with the text of a file, and media:softDelete.      *)
(***************************************************************************)
MaxImportSeq == 3

\* Texts for importFromJSON.
JsonTruncated ==
    \* [{"title":"A","type":"dvd"}
    <<"[", "{", "\"", "t", "i", "t", "l", "e", "\"", ":", "\"", "A", "\"", ",", "\"", "t", "y", "p", "e", "\"", ":", "\"", "d", "v", "d", "\"", "}">>

JsonObjectTop ==
    \* {"title":"A","type":"dvd"}
    <<"{", "\"", "t", "i", "t", "l", "e", "\"", ":", "\"", "A", "\"", ",", "\"", "t", "y", "p", "e", "\"", ":", "\"", "d", "v", "d", "\"", "}">>

JsonNullTop ==
    \* null
    <<"n", "u", "l", "l">>

JsonOneItem ==
    \* [{"id":1,"title":"B","type":"dvd","deleted":1}]
    <<"[", "{", "\"", "i", "d", "\"", ":", "1", ",", "\"", "t", "i", "t", "l", "e", "\"", ":", "\"", "B", "\"", ",", "\"", "t", "y", "p", "e", "\"", ":", "\"", "d", "v", "d", "\"", ",", "\"", "d", "e", "l", "e", "t", "e", "d", "\"", ":", "1", "}", "]">>

JsonBadThenGood ==
    \* [{"title":"A","type":"dvd","rating":9},{"title":"A","type":"dvd"}]
    <<"[", "{", "\"", "t", "i", "t", "l", "e", "\"", ":", "\"", "A", "\"", ",", "\"", "t", "y", "p", "e", "\"", ":", "\"", "d", "v", "d", "\"", ",", "\"", "r", "a", "t", "i", "n", "g", "\"", ":", "9", "}", ",", "{", "\"", "t", "i", "t", "l", "e", "\"", ":", "\"", "A", "\"", ",", "\"", "t", "y", "p", "e", "\"", ":", "\"", "d", "v", "d", "\"", "}", "]">>

JsonScalars ==
    \* [5,"x"]
    <<"[", "5", ",", "\"", "x", "\"", "]">>

JsonThenNull ==
    \* [{"title":"A","type":"dvd"},null]
    <<"[", "{", "\"", "t", "i", "t", "l", "e", "\"", ":", "\"", "A", "\"", ",", "\"", "t", "y", "p", "e", "\"", ":", "\"", "d", "v", "d", "\"", "}", ",", "n", "u", "l", "l", "]">>

\* The texts that are no JSON or whose value is no array, and the others.
JsonNotSequences == {JsonTruncated, JsonObjectTop, JsonNullTop, <<>>}
JsonSequences == {JsonOneItem, JsonBadThenGood, JsonScalars, JsonThenNull}

ImportNext ==
    \/ \E id \in 1..MaxImportSeq : softDeleteMedia(id)
    \/ \E text \in JsonNotSequences \cup JsonSequences :
          importFromJSON(Str(text)) /\ seq' <= MaxImportSeq
    \/ \E csvData \in {CsvRatedRows, CsvNoTitle} :
          importFromCSV(csvData) /\ seq' <= MaxImportSeq

ImportSpec == Init /\ [][ImportNext]_vars

(***************************************************************************)
(* C21: importFromJSON of a text whose value is an array, whatever its     *)
(* elements, returns a summary whose count plus its number of errors is    *)
(* the length of the array, and the records it counts are in the table     *)
(* after the call: no element ends the batch or takes back an insertion.   *)
(***************************************************************************)
C21_BatchNeverAborts ==
    (call.op = "importFromJSON" /\ call.arg.t = "string"
        /\ call.arg.v \in JsonSequences) =>
        /\ ret.kind = "summary"
        /\ ret.success + Len(ret.errors) = Len(JSONparse(call.arg.v).v)
        /\ Cardinality(NewIds) = ret.success

(***************************************************************************)
(* C22: importFromJSON of a text that is no JSON, or whose value is no     *)
(* array, returns the count 0 and one error for the whole batch, and the   *)
(* table is as it was before the call.                                     *)
(***************************************************************************)
C22_NotASequenceRejected ==
    (call.op = "importFromJSON" /\ call.arg.t = "string"
        /\ call.arg.v \in JsonNotSequences) =>
        /\ ret.kind = "summary"
        /\ ret.success = 0
        /\ Len(ret.errors) = 1
        /\ ret.errors[1].kind = "Invalid JSON"
        /\ media = pre

\* A text that is no JSON was given to a store that holds a record, one of
\* them soft-deleted.
C22_Witness ==
    /\ call.op = "importFromJSON"
    /\ call.arg = Str(JsonTruncated)
    /\ ret.kind = "summary" /\ ret.success = 0
    /\ \E i \in DOMAIN media : media[i].deleted = 1

(***************************************************************************)
(* C23: importFromJSON and importFromCSV only add records: every record    *)
(* of the table before the call is in the table after it with the same     *)
(* attributes, also when an item carries the id of one of them, and the    *)
(* records the call counts have ids the table did not hold before.         *)
(***************************************************************************)
C23_ImportsOnlyAdd ==
    (call.op \in {"importFromJSON", "importFromCSV"}) =>
        /\ \A i \in DOMAIN pre : i \in DOMAIN media /\ media[i] = pre[i]
        /\ ret.kind = "summary" => Cardinality(NewIds) = ret.success

\* An item with the id 1 and deleted 1 was imported into a store that holds
\* the record 1, and a record was made.
C23_Witness ==
    /\ call.op = "importFromJSON"
    /\ call.arg = Str(JsonOneItem)
    /\ 1 \in DOMAIN pre
    /\ ret.kind = "summary" /\ ret.success = 1
    /\ NewIds /= {}

(***************************************************************************)
(* C25: the text exportToCSV returns starts with the header line           *)
(* id,title,...,updated_at, also when no record is exported, and has one   *)
(* record after it for each exported record.                               *)
(***************************************************************************)
C25_HeaderLine ==
    <<"i", "d", ",", "t", "i", "t", "l", "e", ",", "t", "y", "p", "e", ",", "d", "e", "s", "c", "r", "i", "p", "t", "i", "o", "n", ",", "i", "s", "b", "n", "_", "s", "k", "u", ",", "i", "m", "a", "g", "e", ",", "r", "a", "t", "i", "n", "g", ",", "q", "u", "a", "n", "t", "i", "t", "y", ",", "s", "i", "z", "e", ",", "b", "r", "a", "n", "d", ",", "s", "y", "s", "t", "e", "m", ",", "d", "e", "l", "e", "t", "e", "d", ",", "c", "r", "e", "a", "t", "e", "d", "_", "a", "t", ",", "u", "p", "d", "a", "t", "e", "d", "_", "a", "t">>

C25_HeaderAlways ==
    (call.op = "exportToCSV") =>
        \E items \in getAllMediaIn(pre, Obj([includeDeleted |-> call.arg])) :
            ret.v = Join(<<C25_HeaderLine>> \o [k \in DOMAIN items |-> CsvRow(items[k])],
                         <<"\n">>)

(***************************************************************************)
(* Updates with falsy values: the handlers media:create and media:update   *)
(* for a record that has a value in every updatable field.                 *)
(***************************************************************************)
MaxFilledSeq == 1

\* An item with a value in each of the ten fields.
FilledItem ==
    Obj([title |-> TitleA, type |-> TypeDvd, description |-> TitleB,
         isbn_sku |-> TitleB, image |-> TitleB, rating |-> Whole(4),
         quantity |-> Whole(2), size |-> TitleB, brand |-> TitleB,
         system |-> TitleB])

\* Payloads with one updatable field whose value is '' or 0, and payloads
\* with two such fields.
FalsyUpdates ==
    {Obj(f :> v) : f \in AllowedSet, v \in {Str(<<>>), Num(0)}}
    \cup {Obj([quantity |-> Num(0), size |-> Str(<<>>)]),
          Obj([title |-> Str(<<>>), brand |-> Str(<<>>)])}

FilledNext ==
    \/ createMedia(FilledItem) /\ seq' <= MaxFilledSeq
    \/ \E id \in 1..MaxFilledSeq, updates \in FalsyUpdates : updateMedia(id, updates)

FilledSpec == Init /\ [][FilledNext]_vars

\* The last call was an update of an existing record with a payload that
\* holds '' or 0 for the updatable field f.
C26_FalsyGiven(f) ==
    /\ call.op = "updateMedia"
    /\ call.id \in DOMAIN pre
    /\ HasOwn(call.arg, f)
    /\ call.arg.v[f] \in {Str(<<>>), Num(0)}

MaxShellSeq == 2

Platforms == {"linux", "darwin"}

ShellInit ==
    /\ media = <<>>
    /\ seq = 0
    /\ now = 0
    /\ call = Call("init", 0, Undefined)
    /\ ret = RetNone
    /\ pre = <<>>
    /\ purged = {}
    /\ shell \in {[platform |-> p, phase |-> "starting", windows |-> 0, db |-> "closed",
                   activate |-> FALSE, allClosed |-> FALSE] : p \in Platforms}
    /\ page = PageLoaded

\* closeDatabase(): if (db) { db.close(); db = null; }
closeDatabase(sh) == [sh EXCEPT !.db = "closed"]

\* app.on('before-quit'), emitted by app.quit() and when the user quits,
\* before the windows are closed.
before_quit(sh) == [closeDatabase(sh) EXCEPT !.phase = "quitting"]

\* app.whenReady().then(...): ok is what initDatabase returns.
whenReady(ok) ==
    /\ shell.phase = "starting"
    /\ shell' = IF ok
                THEN [shell EXCEPT !.phase = "running", !.db = "open", !.windows = 1,
                                   !.activate = TRUE]
                ELSE before_quit(shell)
    /\ UNCHANGED <<media, seq, now, call, ret, pre, purged, page>>

\* The user closes the window: mainWindow.on('closed') sets mainWindow to
\* null, and window-all-closed is emitted unless the application is quitting.
closed ==
    /\ shell.windows > 0
    /\ shell.phase \in {"running", "quitting"}
    /\ shell' = [shell EXCEPT !.windows = @ - 1,
                              !.allClosed = (shell.phase = "running" /\ shell.windows = 1)]
    /\ UNCHANGED <<media, seq, now, call, ret, pre, purged, page>>

\* app.on('window-all-closed'): closeDatabase(), and app.quit() unless the
\* platform is darwin.
window_all_closed ==
    /\ shell.allClosed
    /\ shell' = IF shell.platform /= "darwin"
                THEN [before_quit(closeDatabase(shell)) EXCEPT !.allClosed = FALSE]
                ELSE [closeDatabase(shell) EXCEPT !.allClosed = FALSE]
    /\ UNCHANGED <<media, seq, now, call, ret, pre, purged, page>>

\* The user quits the application (menu, Cmd+Q).
quit ==
    /\ shell.phase = "running"
    /\ ~shell.allClosed
    /\ shell' = before_quit(shell)
    /\ UNCHANGED <<media, seq, now, call, ret, pre, purged, page>>

\* The application ends when it is quitting and no window is left.
will_quit ==
    /\ shell.phase = "quitting"
    /\ shell.windows = 0
    /\ shell' = [shell EXCEPT !.phase = "quit"]
    /\ UNCHANGED <<media, seq, now, call, ret, pre, purged, page>>

\* app.on('activate') (darwin: the dock icon is clicked):
\* if (BrowserWindow.getAllWindows().length === 0) createWindow();
activate ==
    /\ shell.platform = "darwin"
    /\ shell.activate
    /\ shell.phase = "running"
    /\ ~shell.allClosed
    /\ shell' = IF shell.windows = 0 THEN [shell EXCEPT !.windows = 1] ELSE shell
    /\ UNCHANGED <<media, seq, now, call, ret, pre, purged, page>>

\* A handler of ipcMain whose repo function runs with db = null: db.prepare
\* throws a TypeError, which the handler throws on.
Refused(op, id, arg) ==
    /\ ret' = RetThrow("TypeError")
    /\ call' = Call(op, id, arg)
    /\ pre' = media
    /\ UNCHANGED <<media, seq, now, purged, shell, page>>

\* ipcMain.handle('media:create') for a request of the window.
media_create(item) ==
    /\ shell.windows > 0
    /\ shell.phase \in {"running", "quitting"}
    /\ IF shell.db = "open"
       THEN createMedia(item) /\ seq' <= MaxShellSeq
       ELSE Refused("createMedia", 0, item)

\* ipcMain.handle('media:getById') for a request of the window.
media_getById(id) ==
    /\ shell.windows > 0
    /\ shell.phase \in {"running", "quitting"}
    /\ IF shell.db = "open"
       THEN getMediaById(id)
       ELSE Refused("getMediaById", id, Undefined)

ShellNext ==
    \/ \E ok \in BOOLEAN : whenReady(ok)
    \/ closed
    \/ window_all_closed
    \/ quit
    \/ will_quit
    \/ activate
    \/ \E item \in {Obj([title |-> TitleA, type |-> TypeDvd]),
                    Obj([title |-> TitleB, type |-> TypeDvd])} : media_create(item)
    \/ \E id \in 1..MaxShellSeq : media_getById(id)

ShellSpec == ShellInit /\ [][ShellNext]_vars

(***************************************************************************)
(* C27: in every state the life of the application reaches, the database   *)
(* is open whenever a window exists, so that no request of a window is     *)
(* served with the database closed.                                        *)
(***************************************************************************)
C27_WindowHasOpenStore ==
    /\ shell.windows > 0 => shell.db = "open"
    /\ call.op /= "init" => ~(ret.kind = "throw" /\ ret.error = "TypeError")

(***************************************************************************)
(* src/renderer.js: the page, and the handlers of electron/main.js that    *)
(* serve it                                                                *)
(*                                                                         *)
(* A function of the page runs up to its next await in one step.  The      *)
(* invocation it awaits is under way (page.ipc) until its reply reaches    *)
(* the page: the main process calls its handler (serve), the handler       *)
(* replies, and the function that waited goes on (deliver).  The main      *)
(* process calls the handlers in the order the invocations were made.  A   *)
(* handler of the store or of the file system replies before the next one  *)
(* is called; the handler of a dialog awaits dialog.showOpenDialog and     *)
(* replies when the dialog returns (showOpenDialog), and later invocations *)
(* are served meanwhile.  The replies reach the page in the order the      *)
(* handlers gave them.  A dialog is modal to the window: while one is on   *)
(* the screen the user does nothing in the page, but its timers run.       *)
(*                                                                         *)
(* The filters are left empty, the form of the modal holds a title, the    *)
(* type dvd and the rating, the user confirms every confirm(); the data    *)
(* lists of loadAutocompleteData and the export, which write nothing that  *)
(* is read here, are left out.                                             *)
(***************************************************************************)
MaxPageSeq == 1
MaxPending == 2

\* A path the image dialog returns.
ImagePath == Str(<<"p">>)

\* getFilterOptions() with every filter empty.
getFilterOptions ==
    Obj([search |-> Undefined, type |-> Undefined, minRating |-> Undefined,
         brand |-> Undefined, system |-> Undefined])

\* The format of importData, and the text of the file the user opens for it.
FormatJSON == Str(<<"j", "s", "o", "n">>)
FormatCSV == Str(<<"c", "s", "v">>)
\* in.json holds [{"title":"A","type":"dvd"}], in.csv the text CsvRatedRows.
FileText(format) ==
    IF format = FormatJSON THEN Str(Append(JsonTruncated, "]")) ELSE Str(CsvRatedRows)

\* The invocations whose handler awaits a dialog.
Dialogs == {"selectImage", "openFile"}

\* A dialog is on the screen: its handler was called and showOpenDialog has
\* not returned.
DialogShown ==
    \E k \in DOMAIN page.ipc :
       page.ipc[k].op \in Dialogs /\ page.ipc[k].served /\ page.ipc[k].turn = 0

\* The place of the next reply among those on their way to the page.
NextTurn(ipc) == 1 + Cardinality({k \in DOMAIN ipc : ipc[k].turn > 0})

\* The page pg with one more invocation under way.
Invoke(pg, inv) == [pg EXCEPT !.ipc = Append(@, inv)]

\* loadMedia() up to its await: getAllMedia(getFilterOptions()) is invoked.
loadMedia(pg) ==
    Invoke(pg, [Invocation("getAllMedia", "loadMedia", 0) EXCEPT !.data = getFilterOptions])

\* loadTrash() up to its await: getAllMedia({ onlyDeleted: true }) is invoked.
loadTrash(pg) ==
    Invoke(pg, [Invocation("getAllMedia", "loadTrash", 0)
                EXCEPT !.data = Obj([onlyDeleted |-> Bool(TRUE)])])

\* closeMediaModal()
closeMediaModal(pg) ==
    [pg EXCEPT !.modal = FALSE, !.editingMediaId = 0, !.currentRating = Whole(0)]

\* The ids of the items of a result, one card each.
CardsOf(rows) == [k \in DOMAIN rows |-> rows[k].id]

\* What a user's action starts from: the page without its note of the
\* invocation that resolved last.
Acting == [page EXCEPT !.done = Invocation("none", "none", 0)]

\* The user clicks a link of the navigation: switchView(view).
switchView(view) ==
    /\ ~page.modal
    /\ ~DialogShown
    /\ Len(page.ipc) < MaxPending
    /\ page' = IF view = "catalog"
               THEN loadMedia([Acting EXCEPT !.currentView = view])
               ELSE loadTrash([Acting EXCEPT !.currentView = view])
    /\ UNCHANGED <<media, seq, now, call, ret, pre, purged, shell>>

\* applyFilters(): a filter changes, the button Clear Filters is clicked, or
\* the timer that debounce set for the search input fires, in whatever state
\* the page then is.
applyFilters ==
    /\ Len(page.ipc) < MaxPending
    /\ page' = loadMedia(Acting)
    /\ UNCHANGED <<media, seq, now, call, ret, pre, purged, shell>>

\* The user clicks Delete on a card of the catalog: deleteMedia(id).
deleteMedia(id) ==
    /\ ~page.modal
    /\ ~DialogShown
    /\ page.currentView = "catalog"
    /\ \E k \in DOMAIN page.mediaGrid : page.mediaGrid[k] = id
    /\ Len(page.ipc) < MaxPending
    /\ page' = Invoke(Acting, Invocation("softDeleteMedia", "deleteMedia", id))
    /\ UNCHANGED <<media, seq, now, call, ret, pre, purged, shell>>

\* The user clicks Restore on a card of the trash: restoreMedia(id).
restoreCard(id) ==
    /\ ~page.modal
    /\ ~DialogShown
    /\ page.currentView = "trash"
    /\ \E k \in DOMAIN page.trashGrid : page.trashGrid[k] = id
    /\ Len(page.ipc) < MaxPending
    /\ page' = Invoke(Acting, Invocation("restoreMedia", "restoreMedia", id))
    /\ UNCHANGED <<media, seq, now, call, ret, pre, purged, shell>>

\* The user clicks Delete Forever on a card of the trash:
\* permanentDeleteMedia(id).
permanentDeleteCard(id) ==
    /\ ~page.modal
    /\ ~DialogShown
    /\ page.currentView = "trash"
    /\ \E k \in DOMAIN page.trashGrid : page.trashGrid[k] = id
    /\ Len(page.ipc) < MaxPending
    /\ page' = Invoke(Acting, Invocation("permanentDeleteMedia", "permanentDeleteMedia", id))
    /\ UNCHANGED <<media, seq, now, call, ret, pre, purged, shell>>

\* The user clicks Import JSON or Import CSV: importData(format) up to its
\* first await, openFile(filters).
importData(format) ==
    /\ ~page.modal
    /\ ~DialogShown
    /\ Len(page.ipc) < MaxPending
    /\ page' = Invoke(Acting, [Invocation("openFile", "importData", 0) EXCEPT !.data = format])
    /\ UNCHANGED <<media, seq, now, call, ret, pre, purged, shell>>

\* openMediaModal(mediaId) up to its await: the form is reset (which empties
\* the file input and leaves the attribute data-path of #imageInput as it
\* is) and so is currentRating; for an id loadMediaForEdit invokes
\* getMediaById, otherwise the modal is shown.  id is 0 for the button Add,
\* and the id of a card of the catalog for Edit.
openMediaModal(id) ==
    /\ ~page.modal
    /\ ~DialogShown
    /\ id /= 0 => page.currentView = "catalog"
    /\ id /= 0 => \E k \in DOMAIN page.mediaGrid : page.mediaGrid[k] = id
    /\ id /= 0 => Len(page.ipc) < MaxPending
    /\ LET reset == [Acting EXCEPT !.editingMediaId = id, !.currentRating = Whole(0),
                                   !.preview = FALSE, !.mediaId = 0, !.files = FALSE,
                                   !.picked = FALSE]
       IN  page' = IF id /= 0
                   THEN Invoke(reset, Invocation("getMediaById", "loadMediaForEdit", id))
                   ELSE [reset EXCEPT !.modal = TRUE]
    /\ UNCHANGED <<media, seq, now, call, ret, pre, purged, shell>>

\* The user clicks a star of the modal: the listener of setupRatingStars
\* sets currentRating.
setupRatingStars(rating) ==
    /\ page.modal
    /\ ~DialogShown
    /\ page' = [Acting EXCEPT !.currentRating = rating]
    /\ UNCHANGED <<media, seq, now, call, ret, pre, purged, shell>>

\* The user clicks Cancel, the cross or the background of the modal.
cancelModal ==
    /\ page.modal
    /\ ~DialogShown
    /\ page' = closeMediaModal(Acting)
    /\ UNCHANGED <<media, seq, now, call, ret, pre, purged, shell>>

\* The user clicks Select Image: selectImageFile() up to its await.
selectImageFile ==
    /\ page.modal
    /\ ~DialogShown
    /\ Len(page.ipc) < MaxPending
    /\ page' = Invoke(Acting, Invocation("selectImage", "selectImageFile", 0))
    /\ UNCHANGED <<media, seq, now, call, ret, pre, purged, shell>>

\* The user chooses a file in #imageInput: handleImageFileSelect(event)
\* starts a FileReader on it.  One reader at a time is under way.
handleImageFileSelect ==
    /\ page.modal
    /\ ~DialogShown
    /\ ~page.reading
    /\ page' = [Acting EXCEPT !.files = TRUE, !.reading = TRUE, !.picked = TRUE]
    /\ UNCHANGED <<media, seq, now, call, ret, pre, purged, shell>>

\* reader.onload of handleImageFileSelect: the preview is shown.
onload ==
    /\ page.reading
    /\ page' = [page EXCEPT !.reading = FALSE, !.preview = TRUE]
    /\ UNCHANGED <<media, seq, now, call, ret, pre, purged, shell>>

\* removeImage()
removeImage ==
    /\ page.modal
    /\ ~DialogShown
    /\ page' = [Acting EXCEPT !.files = FALSE, !.preview = FALSE, !.dataPath = Null,
                              !.picked = FALSE]
    /\ UNCHANGED <<media, seq, now, call, ret, pre, purged, shell>>

\* mediaData of saveMedia, without its image, for a form with the title
\* given, the type dvd and the other fields empty: the rating is
\* currentRating || null.
FormData(title, currentRating) ==
    [title |-> title, type |-> TypeDvd, description |-> Null, isbn_sku |-> Null,
     quantity |-> Whole(1), rating |-> OrElse(currentRating, Null), brand |-> Null,
     size |-> Null, system |-> Null]

\* saveMedia once mediaData is complete: updateMedia is invoked when the
\* hidden field held an id as saveMedia began (mediaId), createMedia otherwise.
Submit(pg, mediaId, data, picked) ==
    Invoke(pg, [Invocation(IF mediaId /= 0 THEN "updateMedia" ELSE "createMedia",
                           "saveMedia", mediaId)
                EXCEPT !.data = data, !.picked = picked])

\* saveMedia() up to its first await, the form holding the title given: the
\* image is the data-path if there is one, null if the file input holds a
\* file, the image of the stored item if the preview is shown, null
\* otherwise.
saveMedia(title) ==
    /\ page.modal
    /\ ~DialogShown
    /\ Len(page.ipc) < MaxPending
    /\ LET mediaData == FormData(title, page.currentRating)
       IN  page' =
              IF Truthy(page.dataPath)
              THEN Submit(Acting, page.mediaId,
                          Obj(mediaData @@ [image |-> page.dataPath]), page.picked)
              ELSE IF page.files
              THEN Submit(Acting, page.mediaId,
                          Obj(mediaData @@ [image |-> Null]), page.picked)
              ELSE IF page.preview
              THEN Invoke(Acting, [Invocation("getMediaById", "saveMedia", page.mediaId)
                                   EXCEPT !.data = Obj(mediaData), !.picked = page.picked])
              ELSE Submit(Acting, page.mediaId,
                          Obj(mediaData @@ [image |-> Null]), page.picked)
    /\ UNCHANGED <<media, seq, now, call, ret, pre, purged, shell>>

\* What the handler of the main process does for the invocation inv on the
\* table tbl with sqlite_sequence s at time t, up to its reply or, for a
\* dialog, up to its await: the tables and sequences it can leave, each with
\* the reply.
Handled(inv, tbl, s, t) ==
    CASE inv.op = "getAllMedia" ->
            {[tbl |-> tbl, seq |-> s, reply |-> RetRows(rows)] :
                rows \in getAllMediaIn(tbl, inv.data)}
      [] inv.op = "fileExists" ->
            {[tbl |-> tbl, seq |-> s, reply |-> RetBool(exists)] : exists \in BOOLEAN}
      [] inv.op = "softDeleteMedia" ->
            {[tbl |-> SetDeleted(tbl, inv.id, 1, t), seq |-> s,
              reply |-> RetBool(Changes(tbl, inv.id) > 0)]}
      [] inv.op = "restoreMedia" ->
            {[tbl |-> SetDeleted(tbl, inv.id, 0, t), seq |-> s,
              reply |-> RetBool(Changes(tbl, inv.id) > 0)]}
      [] inv.op = "permanentDeleteMedia" ->
            {[tbl |-> DeleteRow(tbl, inv.id), seq |-> s,
              reply |-> RetBool(Changes(tbl, inv.id) > 0)]}
      [] inv.op = "getMediaById" ->
            {[tbl |-> tbl, seq |-> s, reply |-> getMediaByIdIn(tbl, inv.id)]}
      [] inv.op = "createMedia" ->
            LET ins == RunInsert(tbl, s, inv.data, t)
            IN  {[tbl |-> ins.tbl, seq |-> ins.seq,
                  reply |-> IF ins.err = "ok" THEN getMediaByIdIn(ins.tbl, ins.id)
                            ELSE RetThrow(ins.err)]}
      [] inv.op = "updateMedia" ->
            LET after == updateMediaIn(tbl, inv.id, inv.data, t)
            IN  {[tbl |-> after.tbl, seq |-> s, reply |-> after.ret]}
      [] inv.op = "readFile" ->
            {[tbl |-> tbl, seq |-> s, reply |-> RetText(FileText(inv.data).v)]}
      [] inv.op = "importJSON" ->
            LET after == importFromJSONIn(tbl, s, inv.data, t)
            IN  {[tbl |-> after.tbl, seq |-> after.seq, reply |-> after.ret]}
      [] inv.op = "importCSV" ->
            LET after == importFromCSVIn(tbl, s, inv.data.v, t)
            IN  {[tbl |-> after.tbl, seq |-> after.seq, reply |-> after.ret]}
      [] inv.op \in Dialogs ->
            {[tbl |-> tbl, seq |-> s, reply |-> RetNone]}

\* The main process calls the handler of the earliest invocation it has not
\* served yet.  The handler replies at once, unless it shows a dialog.
serve ==
    /\ \E k \in DOMAIN page.ipc :
          /\ ~page.ipc[k].served
          /\ \A j \in 1..(k - 1) : page.ipc[j].served
          /\ \E after \in Handled(page.ipc[k], media, seq, now) :
                /\ media' = after.tbl
                /\ seq' = after.seq
                /\ page' = [page EXCEPT
                               !.ipc[k].served = TRUE,
                               !.ipc[k].reply = after.reply,
                               !.ipc[k].turn = IF page.ipc[k].op \in Dialogs THEN 0
                                               ELSE NextTurn(page.ipc)]
          /\ purged' = IF page.ipc[k].op = "permanentDeleteMedia"
                          /\ page.ipc[k].id \in DOMAIN media
                       THEN purged \cup {page.ipc[k].id} ELSE purged
    /\ seq' <= MaxPageSeq
    /\ UNCHANGED <<now, call, ret, pre, shell>>

\* dialog.showOpenDialog returns in the handler of dialog:selectImage or
\* dialog:openFile: the handler replies the path of the file the user chose,
\* or null when the user cancelled.
showOpenDialog ==
    /\ \E k \in DOMAIN page.ipc :
          /\ page.ipc[k].op \in Dialogs
          /\ page.ipc[k].served
          /\ page.ipc[k].turn = 0
          /\ \E reply \in {RetNull, RetText(ImagePath.v)} :
                page' = [page EXCEPT !.ipc[k].reply = reply,
                                     !.ipc[k].turn = NextTurn(page.ipc)]
    /\ UNCHANGED <<media, seq, now, call, ret, pre, purged, shell>>

\* The page pg after loadMedia's await gave rows: currentMedia is set and
\* renderMediaGrid empties the grid; the cards are appended at once when no
\* item has an image, and when the calls of fileExists have resolved
\* otherwise.
Rendered(pg, rows) ==
    IF \E k \in DOMAIN rows : Truthy(rows[k].image)
    THEN Invoke([pg EXCEPT !.currentMedia = rows, !.mediaGrid = <<>>],
                [Invocation("fileExists", "renderMediaGrid", 0) EXCEPT !.cards = CardsOf(rows)])
    ELSE [pg EXCEPT !.currentMedia = rows, !.mediaGrid = CardsOf(rows)]

\* The page pg after loadMediaForEdit's await gave the item or null, and what
\* openMediaModal does after it.
Edited(pg, inv, item) ==
    IF item.kind = "null"
    THEN [closeMediaModal(pg) EXCEPT !.modal = TRUE]
    ELSE LET filled == [pg EXCEPT !.mediaId = item.v.id,
                                  !.currentRating = OrElse(item.v.rating, @)]
         IN  IF Truthy(item.v.image)
             THEN Invoke(filled, Invocation("fileExists", "loadMediaForEdit", inv.id))
             ELSE [filled EXCEPT !.modal = TRUE]

\* The page the function that awaited inv leaves when the reply of inv
\* reaches the page pg, up to its next await or its end.
Resumed(pg, inv) ==
    CASE inv.op = "getAllMedia" /\ inv.then = "loadMedia" ->
            Rendered(pg, inv.reply.v)
      [] inv.op = "getAllMedia" /\ inv.then = "loadTrash" ->
            [pg EXCEPT !.trashGrid = CardsOf(inv.reply.v)]
      [] inv.op = "fileExists" /\ inv.then = "renderMediaGrid" ->
            [pg EXCEPT !.mediaGrid = @ \o inv.cards]
      [] inv.op = "softDeleteMedia" ->
            loadMedia(pg)
      [] inv.op \in {"restoreMedia", "permanentDeleteMedia"} ->
            loadTrash(pg)
      [] inv.op = "getMediaById" /\ inv.then = "loadMediaForEdit" ->
            Edited(pg, inv, inv.reply)
      [] inv.op = "fileExists" /\ inv.then = "loadMediaForEdit" ->
            [pg EXCEPT !.preview = (inv.reply.v \/ @), !.modal = TRUE]
      [] inv.op = "getMediaById" /\ inv.then = "saveMedia" ->
            Submit(pg, inv.id,
                   IF inv.reply.kind = "null" THEN inv.data
                   ELSE Obj(inv.data.v @@ [image |-> inv.reply.v.image]),
                   inv.picked)
      [] inv.op \in {"createMedia", "updateMedia"} ->
            IF inv.reply.kind = "throw" THEN pg ELSE loadMedia(closeMediaModal(pg))
      [] inv.op = "selectImage" ->
            IF inv.reply.kind = "null" THEN pg
            ELSE [pg EXCEPT !.preview = TRUE, !.dataPath = Str(inv.reply.v),
                            !.picked = (@ \/ pg.modal)]
      [] inv.op = "openFile" ->
            IF inv.reply.kind = "null" THEN pg
            ELSE Invoke(pg, [Invocation("readFile", "importData", 0) EXCEPT !.data = inv.data])
      [] inv.op = "readFile" ->
            Invoke(pg, [Invocation(IF inv.data = FormatJSON THEN "importJSON" ELSE "importCSV",
                                   "importData", 0)
                        EXCEPT !.data = Str(inv.reply.v)])
      [] inv.op \in {"importJSON", "importCSV"} ->
            IF inv.reply.kind = "throw" THEN pg ELSE loadMedia(pg)

\* The reply that was given first reaches the page and the function that
\* awaited it goes on.
deliver ==
    /\ \E k \in DOMAIN page.ipc :
          /\ page.ipc[k].turn = 1
          /\ LET rest == SubSeq(page.ipc, 1, k - 1) \o SubSeq(page.ipc, k + 1, Len(page.ipc))
                 left == [j \in DOMAIN rest |->
                             [rest[j] EXCEPT !.turn = IF @ > 0 THEN @ - 1 ELSE 0]]
             IN  page' = Resumed([page EXCEPT !.ipc = left, !.done = page.ipc[k]],
                                 page.ipc[k])
    /\ UNCHANGED <<media, seq, now, call, ret, pre, purged, shell>>

PageNext ==
    \/ \E view \in {"catalog", "trash"} : switchView(view)
    \/ applyFilters
    \/ \E id \in 1..MaxPageSeq : deleteMedia(id)
    \/ \E id \in 1..MaxPageSeq : restoreCard(id)
    \/ \E id \in 1..MaxPageSeq : permanentDeleteCard(id)
    \/ \E format \in {FormatJSON, FormatCSV} : importData(format)
    \/ \E id \in 0..MaxPageSeq : openMediaModal(id)
    \/ cancelModal
    \/ selectImageFile
    \/ handleImageFileSelect
    \/ onload
    \/ removeImage
    \/ \E rating \in {Whole(4)} : setupRatingStars(rating)
    \/ \E title \in {TitleA} : saveMedia(title)
    \/ serve
    \/ showOpenDialog
    \/ deliver
    \/ Tick

PageSpec == Init /\ [][PageNext]_vars

\* The page with a user who keeps to the lists: the views, the filters, the
\* buttons of the cards and the import; the modal is opened and cancelled.
\* Every behaviour of TrashSpec is a behaviour of PageSpec.
TrashNext ==
    \/ \E view \in {"catalog", "trash"} : switchView(view)
    \/ applyFilters
    \/ \E id \in 1..MaxPageSeq : deleteMedia(id)
    \/ \E id \in 1..MaxPageSeq : restoreCard(id)
    \/ \E id \in 1..MaxPageSeq : permanentDeleteCard(id)
    \/ \E format \in {FormatJSON, FormatCSV} : importData(format)
    \/ \E id \in 0..MaxPageSeq : openMediaModal(id)
    \/ cancelModal
    \/ serve
    \/ showOpenDialog
    \/ deliver
    \/ Tick

TrashSpec == Init /\ [][TrashNext]_vars

\* The page with a user who keeps to the modal and the filters: items are
\* added and edited, with or without an image and a rating.  Every
\* behaviour of ModalSpec is a behaviour of PageSpec.
ModalNext ==
    \/ applyFilters
    \/ \E id \in 0..MaxPageSeq : openMediaModal(id)
    \/ cancelModal
    \/ selectImageFile
    \/ handleImageFileSelect
    \/ onload
    \/ removeImage
    \/ \E rating \in {Whole(4)} : setupRatingStars(rating)
    \/ \E title \in {TitleA} : saveMedia(title)
    \/ serve
    \/ showOpenDialog
    \/ deliver
    \/ Tick

ModalSpec == Init /\ [][ModalNext]_vars

\* The ids of the cards of a grid.
Listed(grid) == {grid[k] : k \in DOMAIN grid}

\* The ids of the items of the store that are soft-deleted.
SoftDeleted == {id \in DOMAIN media : media[id].deleted = 1}

\* C24: when the trash view has loaded and nothing else is under way, also
\* after a delete in the catalog or a restore in the trash, its grid lists
\* exactly the soft-deleted items; when the catalog has loaded, it holds none
\* of them.
C24_TrashListsTheDeleted ==
    /\ page.done.op = "getAllMedia" /\ page.done.then = "loadTrash" /\ page.ipc = <<>>
          => Listed(page.trashGrid) = SoftDeleted
    /\ page.done.op = "getAllMedia" /\ page.done.then = "loadMedia" /\ page.ipc = <<>>
          => Listed(CardsOf(page.currentMedia)) \cap SoftDeleted = {}

\* C28: a new item saved from a modal session in which the user chose no
\* image is stored with image = null.
C28_NoImageFromEarlierSession ==
    page.done.op = "createMedia" /\ ~page.done.picked /\ page.done.reply.kind = "row"
       => page.done.reply.v.image = Null

\* No loadMedia is under way: no getAllMedia it made and no cards of its
\* render are waited for.
LoadsCompleted ==
    \A k \in DOMAIN page.ipc :
       /\ ~(page.ipc[k].op = "getAllMedia" /\ page.ipc[k].then = "loadMedia")
       /\ ~(page.ipc[k].op = "fileExists" /\ page.ipc[k].then = "renderMediaGrid")

\* C29: when every loadMedia has completed, the catalog grid holds one card
\* per item of the most recent result, in its order, and nothing else.
C29_GridIsLatestResult ==
    LoadsCompleted => page.mediaGrid = CardsOf(page.currentMedia)

\* C30: when openMediaModal(id) has completed for an id that getMediaById
\* did not find, the modal is not shown, so that nothing can be saved from it.
C30_MissingItemLeavesModalClosed ==
    page.done.op = "getMediaById" /\ page.done.then = "loadMediaForEdit"
       /\ page.done.reply.kind = "null"
       => ~page.modal
====
